---- MODULE Spec2Model ----
(***************************************************************************)
(* Favicon finder backend: the per-domain resolver (findFavicon), the      *)
(* batch orchestrator (processBatch) and the rank sort of processCsvFile,  *)
(* modelled from src/backend/src/faviconFinder.ts.                         *)
(*                                                                         *)
(* One action per continuation of the code between two awaits: the event   *)
(* loop runs such a continuation to its next await without interleaving.   *)
(* A network call or a cache call and the delivery of its outcome is one   *)
(* step; the outcome is chosen by the environment.                         *)
(***************************************************************************)
EXTENDS Integers, Sequences, FiniteSets

(* ------------------------------ bounds -------------------------------- *)

\* Longest input list of DomainRecords.
MaxRecords == 3

\* The window size (faviconFinder.ts:24 sets 100; scaled down so that an
\* input of MaxRecords records spans more than one window).
CONCURRENT_REQUESTS == 2

\* Most icon links a homepage of FullEnv holds.
MaxCands == 1

\* Most elements a homepage of HtmlEnv holds.
MaxElements == 2

\* The latest reading of the wall clock, in milliseconds after the
\* earliest one.
MaxClock == 1

\* The ranks of the found results the progress events of the frontend
\* carry, in a cycle.
MaxRank == 3

\* Requests of /api/test-domain that can be in flight beside the batch.
MaxTests == 1

\* Longest CSV file, in lines.
MaxLines == 3

(* ------------------------------ inputs -------------------------------- *)

\* DomainRecords the input list is drawn from: a rank tie between two
\* domains, and one domain under two ranks. A list can hold them out of
\* rank order and can hold a record more than once.
RecordSet ==
  { [rank |-> 1, domain |-> "a.io"],
    [rank |-> 1, domain |-> "b.io"],
    [rank |-> 2, domain |-> "b.io"] }

Domains == { r.domain : r \in RecordSet }

Tasks == 1..MaxRecords

\* The resolutions testSingleDomain starts, numbered after the records.
Tests == (MaxRecords + 1)..(MaxRecords + MaxTests)

Slots == Tasks \cup Tests

SeqsUpTo(S, n) == UNION { [1..k -> S] : k \in 0..n }

\* Lines a CSV file is made of, as their cells before trimming: two
\* well-formed rows (one with padding around the domain), a rank that is
\* no number, a negative rank, an empty domain, a line of one column and
\* an empty line.
RowSet ==
  { <<"1", "a.io">>, <<"2", " b.io ">>, <<"x", "b.io">>, <<"-5", "a.io">>,
    <<"3", "">>, <<"7">>, <<"">> }

(* --------------------------- cache service ---------------------------- *)

\* cacheService.get answers a URL, the negative sentinel, or null.
NOT_FOUND == "NOT_FOUND"
NULL == "null"
ABSENT == NULL

\* Mutant: null counts as a value (only the empty string is falsy).
Truthy_NotEmpty(v) == v # ""

\* JavaScript truthiness of a string-or-null value.
Truthy(v) == v # NULL /\ v # ""

\* The value a failing cache call raises.
CacheError == [isError |-> TRUE, message |-> "cache command failed"]

(* ------------------------------ strings ------------------------------- *)

\* String.prototype.trim, for blanks.
RECURSIVE TrimLeft(_)
TrimLeft(str) ==
  IF Len(str) > 0 /\ SubSeq(str, 1, 1) = " "
  THEN TrimLeft(SubSeq(str, 2, Len(str)))
  ELSE str

RECURSIVE TrimRight(_)
TrimRight(str) ==
  IF Len(str) > 0 /\ SubSeq(str, Len(str), Len(str)) = " "
  THEN TrimRight(SubSeq(str, 1, Len(str) - 1))
  ELSE str

Trim(str) == TrimRight(TrimLeft(str))

\* String.prototype.startsWith
StartsWith(str, prefix) ==
  Len(str) >= Len(prefix) /\ SubSeq(str, 1, Len(prefix)) = prefix

\* The first position from k on at which part occurs in str, or 0.
RECURSIVE Find(_, _, _)
Find(str, part, k) ==
  IF k + Len(part) - 1 > Len(str) THEN 0
  ELSE IF SubSeq(str, k, k + Len(part) - 1) = part THEN k
  ELSE Find(str, part, k + 1)

\* The last position at which part occurs in str, or 0.
RECURSIVE FindLast(_, _, _)
FindLast(str, part, k) ==
  IF k < 1 THEN 0
  ELSE IF SubSeq(str, k, k + Len(part) - 1) = part THEN k
  ELSE FindLast(str, part, k - 1)

\* w is one of the space-separated words of str.
RECURSIVE HasWord(_, _)
HasWord(str, w) ==
  IF Find(str, " ", 1) = 0 THEN str = w
  ELSE \/ SubSeq(str, 1, Find(str, " ", 1) - 1) = w
       \/ HasWord(SubSeq(str, Find(str, " ", 1) + 1, Len(str)), w)

(* ------------------------------ resolver ------------------------------ *)

\* Mutant: plain http is tried first.
protocols_HttpFirst == <<"http", "https">>

\* Line 83: the schemes, in the order they are tried.
protocols == <<"https", "http">>

\* `${protocol}://${domain}/favicon.ico`
FaviconIco(protocol, domain) == protocol \o "://" \o domain \o "/favicon.ico"

\* What response.request.res.responseUrl can hold for a request of url:
\* nothing, or the URL the client landed on after redirects.
ResponseUrls(url) == { "", "https://cdn.test/favicon.ico" }

\* headResponse.request?.res?.responseUrl || faviconUrl
FinalUrl(responseUrl, faviconUrl) ==
  IF responseUrl # "" THEN responseUrl ELSE faviconUrl

\* Outcomes of axiosInstance.head(faviconUrl) under validateStatus 200..399:
\* a 2xx answer with or without a content-length header, a 3xx answer, a
\* 405, another 4xx or a 5xx ("4xx"), or no answer at all.
HeadOutcomes ==
  { "2xx", "2xxNoLength", "3xx", "405", "4xx", "ENOTFOUND", "timeout" }

\* Mutant: a 2xx answer counts only when it declares a content length.
Is2xx_NeedsLength(o) == o = "2xx"

\* Line 98: headResponse.status >= 200 && headResponse.status < 300.
Is2xx(o) == o \in {"2xx", "2xxNoLength"}

\* Outcomes of the GET of faviconUrl (arraybuffer, validateStatus 200..399).
GetOutcomes == { "data", "empty", "4xx", "timeout" }

\* Outcomes of the homepage GET that are not a parsed page.
HtmlFailures == { "4xx", "timeout" }

\* The outcomes that are network failures (no HTTP response at all).
NetworkFailures == { "ENOTFOUND", "timeout" }

(* WHATWG URL, as far as the normalisation of lines 164-172 uses it. *)

SchemeChars ==
  { "a","b","c","d","e","f","g","h","i","j","k","l","m","n","o","p","q","r",
    "s","t","u","v","w","x","y","z","0","1","2","3","4","5","6","7","8","9",
    "+","-","." }

\* str starts with a URL scheme and its colon.
HasScheme(str) ==
  /\ Find(str, ":", 1) > 1
  /\ \A k \in 1..(Find(str, ":", 1) - 1) : SubSeq(str, k, k) \in SchemeChars
  /\ SubSeq(str, 1, 1) \notin {"0","1","2","3","4","5","6","7","8","9","+","-","."}

\* Where the path of an absolute URL with an authority starts, or 0.
PathStart(url) == Find(url, "/", Find(url, "://", 1) + 3)

\* new URL(url).origin: scheme, "://" and host.
Origin(url) ==
  IF PathStart(url) = 0 THEN url ELSE SubSeq(url, 1, PathStart(url) - 1)

\* The host of an absolute URL with an authority.
Host(url) ==
  SubSeq(url, Find(url, "://", 1) + 3,
         IF PathStart(url) = 0 THEN Len(url) ELSE PathStart(url) - 1)

\* new URL(str) raises: a host with a forbidden code point (a blank).
Malformed(str) ==
  /\ HasScheme(str)
  /\ Find(str, "://", 1) = Find(str, ":", 1)
  /\ Find(Host(str), " ", 1) > 0

\* The base URL up to and including the last "/" of its path.
Directory(baseUrl) ==
  IF PathStart(baseUrl) = 0 THEN baseUrl \o "/"
  ELSE SubSeq(baseUrl, 1, FindLast(baseUrl, "/", Len(baseUrl)))

\* The outcome of a normalisation: a URL, or an exception.
Normalised(url) == [ok |-> TRUE, url |-> url]
NormaliseThrows == [ok |-> FALSE, url |-> ""]

\* new URL(faviconUrl, baseUrl).href for a candidate that starts with no
\* "/": an absolute URL stays, a relative reference is resolved against
\* the base's directory.
ResolveHref(faviconUrl, baseUrl) ==
  IF Malformed(faviconUrl) \/ Malformed(baseUrl) THEN NormaliseThrows
  ELSE IF HasScheme(faviconUrl) THEN Normalised(faviconUrl)
  ELSE Normalised(Directory(baseUrl) \o faviconUrl)

\* Mutant: a root-relative candidate is put behind the requested scheme
\* and the host of the base, whatever scheme the fetch landed on.
NormaliseUrl_RequestedScheme(faviconUrl, protocol, baseUrl) ==
  IF StartsWith(faviconUrl, "//") THEN Normalised(protocol \o ":" \o faviconUrl)
  ELSE IF StartsWith(faviconUrl, "/")
  THEN Normalised(protocol \o "://" \o Host(baseUrl) \o faviconUrl)
  ELSE IF ~StartsWith(faviconUrl, "http") THEN ResolveHref(faviconUrl, baseUrl)
  ELSE Normalised(faviconUrl)

\* Lines 164-172: the normalisation of a trimmed candidate.
NormaliseUrl(faviconUrl, protocol, baseUrl) ==
  IF StartsWith(faviconUrl, "//") THEN Normalised(protocol \o ":" \o faviconUrl)
  ELSE IF StartsWith(faviconUrl, "/")
  THEN IF Malformed(baseUrl) THEN NormaliseThrows
       ELSE Normalised(Origin(baseUrl) \o faviconUrl)
  ELSE IF ~StartsWith(faviconUrl, "http") THEN ResolveHref(faviconUrl, baseUrl)
  ELSE Normalised(faviconUrl)

(* The homepage as cheerio sees it: its elements in document order. *)

\* An attribute an element does not have reads as undefined.
UNDEFINED == NULL

Link(rel, href) ==
  [tag |-> "link", rel |-> rel, property |-> UNDEFINED, href |-> href,
   content |-> UNDEFINED]

Meta(property, content) ==
  [tag |-> "meta", rel |-> UNDEFINED, property |-> property,
   href |-> UNDEFINED, content |-> content]

\* $(selector).first() of a selector that matches nothing.
NoElement ==
  [tag |-> "", rel |-> UNDEFINED, property |-> UNDEFINED, href |-> UNDEFINED,
   content |-> UNDEFINED]

\* Lines 147-154: iconSelectors, in priority order.
iconSelectors ==
  << [tag |-> "link", attr |-> "rel", op |-> "=", value |-> "icon"],
     [tag |-> "link", attr |-> "rel", op |-> "=", value |-> "shortcut icon"],
     [tag |-> "link", attr |-> "rel", op |-> "~=", value |-> "icon"],
     [tag |-> "link", attr |-> "rel", op |-> "=", value |-> "apple-touch-icon"],
     [tag |-> "link", attr |-> "rel", op |-> "=",
      value |-> "apple-touch-icon-precomposed"],
     [tag |-> "meta", attr |-> "property", op |-> "=", value |-> "og:image"] >>

\* The element matches the selector tag[attr="value"] or tag[attr~="value"].
Matches(selector, element) ==
  /\ element.tag = selector.tag
  /\ element[selector.attr] # UNDEFINED
  /\ IF selector.op = "=" THEN element[selector.attr] = selector.value
     ELSE HasWord(element[selector.attr], selector.value)

\* $(selector).first()
RECURSIVE First(_, _)
First(doc, selector) ==
  IF doc = << >> THEN NoElement
  ELSE IF Matches(selector, Head(doc)) THEN Head(doc)
  ELSE First(Tail(doc), selector)

\* Mutant: the attribute is read off the last element the selector matches.
RECURSIVE Last(_, _)
Last(doc, selector) ==
  IF doc = << >> THEN NoElement
  ELSE IF Matches(selector, doc[Len(doc)]) THEN doc[Len(doc)]
  ELSE Last(SubSeq(doc, 1, Len(doc) - 1), selector)

\* Line 159: iconHref && iconHref.trim() && !iconHref.startsWith('data:')
Usable(iconHref) ==
  /\ Truthy(iconHref)
  /\ Truthy(Trim(iconHref))
  /\ ~StartsWith(iconHref, "data:")

\* Mutant: the attribute is read off the last matching element.
RECURSIVE SelectorLoop_LastElement(_, _, _, _)
SelectorLoop_LastElement(doc, protocol, baseUrl, k) ==
  IF k > Len(iconSelectors) THEN << >>
  ELSE LET iconHref == Last(doc, iconSelectors[k]).href
           rest == SelectorLoop_LastElement(doc, protocol, baseUrl, k + 1)
       IN IF Usable(iconHref) /\ NormaliseUrl(Trim(iconHref), protocol, baseUrl).ok
          THEN << NormaliseUrl(Trim(iconHref), protocol, baseUrl).url >> \o rest
          ELSE rest

\* Mutant: an exception of the normalisation ends the selector loop.
RECURSIVE SelectorLoop_ThrowEnds(_, _, _, _)
SelectorLoop_ThrowEnds(doc, protocol, baseUrl, k) ==
  IF k > Len(iconSelectors) THEN << >>
  ELSE LET iconHref == First(doc, iconSelectors[k]).href
           rest == SelectorLoop_ThrowEnds(doc, protocol, baseUrl, k + 1)
       IN IF ~Usable(iconHref) THEN rest
          ELSE IF NormaliseUrl(Trim(iconHref), protocol, baseUrl).ok
          THEN << NormaliseUrl(Trim(iconHref), protocol, baseUrl).url >> \o rest
          ELSE << >>

\* Lines 156-182: the selector loop from the k-th selector on, as the
\* normalised candidates it reaches in order: the href of the selector's
\* first element when it is usable and its normalisation does not raise.
RECURSIVE SelectorLoop(_, _, _, _)
SelectorLoop(doc, protocol, baseUrl, k) ==
  IF k > Len(iconSelectors) THEN << >>
  ELSE LET iconHref == First(doc, iconSelectors[k]).href
           rest == SelectorLoop(doc, protocol, baseUrl, k + 1)
       IN IF Usable(iconHref) /\ NormaliseUrl(Trim(iconHref), protocol, baseUrl).ok
          THEN << NormaliseUrl(Trim(iconHref), protocol, baseUrl).url >> \o rest
          ELSE rest

\* The candidates of a fetched homepage, in the order the loop tries them.
PageCands(doc, protocol, baseUrl) == SelectorLoop(doc, protocol, baseUrl, 1)

\* Homepages with n icon links of distinct selectors, hrefs root-relative.
PlainElements ==
  << Link("icon", "/icon.png"), Link("apple-touch-icon", "/touch.png"),
     Link("apple-touch-icon-precomposed", "/precomposed.png") >>

PlainDoc(n) == SubSeq(PlainElements, 1, n)

\* The elements the homepages of SpecHtml are made of.
HtmlElements ==
  { Link("icon", "/icon.png"),
    Link("shortcut icon", "//cdn.test/i.png"),
    Link("alternate icon", "a.png"),
    Link("apple-touch-icon", " https://a.io/abs.png "),
    Link("icon", "httpicon.png"),
    Link("icon", "data:image/png;base64,AA"),
    Link("icon", " data:image/png;base64,AA"),
    Link("icon", "ftp://a b/i.png"),
    Link("icon", " "),
    Link("stylesheet", "/site.css"),
    Meta("og:image", "https://a.io/og.png") }

\* What responseUrl can hold after the homepage fetch: nothing, or the URL
\* the client landed on after redirects.
PageUrls == { "", "https://www.a.io/home/index.html" }

\* The calls of the cache service that can raise.
CacheCalls == { "get", "set", "setNotFound" }

\* What Date.now() can answer (lines 67, 194): the wall clock is read anew
\* at every call and can have been set back between two of them.
Times == 0..MaxClock

\* The values the progress callback can raise.
CallbackThrows ==
  { [isError |-> TRUE, message |-> "progress sink failed"],
    [isError |-> FALSE, message |-> ""] }

\* Every behaviour of the collaborators (network, cache, progress sink).
FullEnv ==
  [ head |-> HeadOutcomes, get |-> GetOutcomes, html |-> HtmlFailures,
    pages |-> { PlainDoc(n) : n \in 0..MaxCands }, pageUrls |-> {""},
    responseUrls |-> ResponseUrls(""),
    cacheUp |-> TRUE, cacheFaults |-> CacheCalls,
    cbThrows |-> CallbackThrows, clock |-> Times ]

\* The collaborators when the cache backend is unreachable: get answers
\* absent, set and setNotFound are no-ops, and no cache call raises.
DownEnv == [FullEnv EXCEPT !.cacheUp = FALSE, !.cacheFaults = {}]

\* The collaborators of a batch run: every step of the resolver is reached
\* and a resolution can return a URL, return null or throw; the HTTP
\* detail of FullEnv and the running of the wall clock are left to
\* SpecResolver: here every reading of the clock gives the same time.
BatchEnv ==
  [ head |-> {"2xx", "timeout"}, get |-> {"data", "timeout"},
    html |-> {"timeout"}, pages |-> {PlainDoc(1)}, pageUrls |-> {""},
    responseUrls |-> {""},
    cacheUp |-> TRUE, cacheFaults |-> {"get"},
    cbThrows |-> {[isError |-> TRUE, message |-> "progress sink failed"]},
    clock |-> {0} ]

\* The collaborators of the HTML step: every homepage of up to MaxElements
\* elements, landed on directly or after redirects; the probe of
\* /favicon.ico fails or succeeds without further detail, and every
\* reading of the wall clock gives the same time.
HtmlEnv ==
  [ head |-> {"2xx", "405", "timeout"}, get |-> {"data"},
    html |-> {"timeout"}, pages |-> SeqsUpTo(HtmlElements, MaxElements),
    pageUrls |-> PageUrls, responseUrls |-> {""},
    cacheUp |-> TRUE, cacheFaults |-> {"get"},
    cbThrows |-> {[isError |-> TRUE, message |-> "progress sink failed"]},
    clock |-> {0} ]

(* ------------------------------- state -------------------------------- *)

VARIABLES
  recentFavicons, \* App.tsx: the found results shown, newest first
  selectedFile,   \* App.tsx: the state `file`, the CSV file chosen (or null)
  handled,        \* App.tsx: the handler that ran last, and its input
  env,        \* what the network, the cache and the sink can do in this run
  file,       \* processCsvFile's input: the lines of the CSV file, as cells
  run,        \* which processBatch call over the input this is: 1 or 2
  prev,       \* the results the first call returned (during the second)
  tests,      \* per testSingleDomain call: its domain argument
  domains,    \* processBatch's argument: the input DomainRecords
  hasCb,      \* whether onProgress was supplied
  batchPc,    \* position of processBatch / processCsvFile
  i,          \* processBatch's loop index (1-based start of the window)
  results,    \* processBatch's results array
  sorted,     \* results after processCsvFile's sort
  processed,  \* processBatch's processed counter
  cache,      \* the cache service's entries, by domain
  metrics,    \* the exported metrics accumulator
  task,       \* per input record: the state of its async arrow function
  obs,        \* per input record: what its resolution did (history)
  events      \* the onProgress calls, in call order

vars == << recentFavicons, selectedFile, handled, env, file, run, prev, tests, domains, hasCb, batchPc, i, results, sorted, processed, cache,
           metrics, task, obs, events >>

total == Len(domains)

NoRet == [kind |-> "pending", url |-> NULL, err |-> CacheError]
NoResult == [rank |-> 0, domain |-> "", favicon_url |-> "", status |-> "", error |-> ""]

Task0 ==
  [ pc |-> "idle", proto |-> 1, cand |-> "", left |-> << >>, startTime |-> 0,
    ret |-> NoRet, result |-> NoResult ]

Obs0 ==
  [ invoked |-> 0, got |-> "none", gets |-> 0, netCalls |-> 0,
    netResponses |-> 0, calls |-> << >>, page |-> << >>, writes |-> << >>,
    settledAt |-> 0, cacheFaults |-> 0,
    cbCalls |-> 0, cbThrows |-> 0, counted |-> 0 ]

Metrics0 ==
  [ totalRequests |-> 0, cacheHits |-> 0, cacheMisses |-> 0,
    found |-> 0, notFound |-> 0, errors |-> 0, totalDuration |-> 0 ]

\* App.tsx lines 31-37: the state of the component when it is mounted.
Mounted ==
  /\ recentFavicons = << >>
  /\ selectedFile = NULL
  /\ handled = [handler |-> "mount", input |-> NULL]

\* processBatch is entered with its locals of lines 209-211.
Entered ==
  /\ Mounted
  /\ file = << >>
  /\ run = 1
  /\ prev = << >>
  /\ tests = [t \in Tests |-> ""]
  /\ batchPc = "loop"
  /\ i = 1
  /\ results = << >>
  /\ sorted = << >>
  /\ processed = 0
  /\ metrics = Metrics0
  /\ task = [t \in Slots |-> Task0]
  /\ obs = [t \in Slots |-> Obs0]
  /\ events = << >>

\* A batch run over any input of up to MaxRecords records, cache cold.
Init ==
  /\ env = BatchEnv
  /\ domains \in SeqsUpTo(RecordSet, MaxRecords)
  /\ hasCb \in BOOLEAN
  /\ cache = [d \in Domains |-> ABSENT]
  /\ Entered

\* What the cache can hold for a domain when a run starts.
CacheValues == { ABSENT, NOT_FOUND, "https://a.io/cached.png" }

\* The resolution of one record under every behaviour of the
\* collaborators, the cache cold or warm.
InitResolver ==
  /\ env = FullEnv
  /\ domains \in [1..1 -> RecordSet]
  /\ hasCb \in BOOLEAN
  /\ cache \in [Domains -> CacheValues]
  /\ Entered

\* The resolution of one record with no entry for its domain: the cache
\* is reachable and empty, or unreachable.
InitColdCache ==
  /\ env \in {FullEnv, DownEnv}
  /\ domains \in [1..1 -> RecordSet]
  /\ hasCb \in BOOLEAN
  /\ cache = [d \in Domains |-> ABSENT]
  /\ Entered

\* A batch run over an input that fits one window, cache cold, which a
\* second run over the same input follows.
InitRerun ==
  /\ env = BatchEnv
  /\ domains \in SeqsUpTo(RecordSet, CONCURRENT_REQUESTS)
  /\ hasCb \in BOOLEAN
  /\ cache = [d \in Domains |-> ABSENT]
  /\ Entered

\* A batch run over a longest input of one domain, cache cold, while the
\* server also answers /api/test-domain requests for any domain.
InitServer ==
  /\ env = BatchEnv
  /\ domains \in [1..MaxRecords -> {[rank |-> 1, domain |-> "a.io"]}]
  /\ hasCb \in BOOLEAN
  /\ cache = [d \in Domains |-> ABSENT]
  /\ Entered

\* processCsvFile is called on a file of up to MaxLines lines, cache cold.
InitCsv ==
  /\ Mounted
  /\ env = BatchEnv
  /\ file \in SeqsUpTo(RowSet, MaxLines)
  /\ domains = << >>
  /\ hasCb \in BOOLEAN
  /\ cache = [d \in Domains |-> ABSENT]
  /\ run = 1
  /\ prev = << >>
  /\ tests = [t \in Tests |-> ""]
  /\ batchPc = "read"
  /\ i = 1
  /\ results = << >>
  /\ sorted = << >>
  /\ processed = 0
  /\ metrics = Metrics0
  /\ task = [t \in Slots |-> Task0]
  /\ obs = [t \in Slots |-> Obs0]
  /\ events = << >>

\* The resolution of one record whose homepage is any document of
\* HtmlEnv, cache cold, progress reported.
InitHtml ==
  /\ env = HtmlEnv
  /\ domains \in [1..1 -> {[rank |-> 1, domain |-> "a.io"]}]
  /\ hasCb = TRUE
  /\ cache = [d \in Domains |-> ABSENT]
  /\ Entered

(* ------------------------- findFavicon (65-196) ------------------------ *)

\* The argument of the findFavicon call: record.domain (line 218) or
\* testSingleDomain's domain (line 275).
Domain(t) == IF t \in Tests THEN tests[t] ELSE domains[t].domain
Protocol(t) == protocols[task[t].proto]

\* findFavicon settles: it returns url (NULL for null) or throws err.
Returns(url) == [kind |-> "value", url |-> url, err |-> CacheError]
Throws(err) == [kind |-> "throw", url |-> NULL, err |-> err]

Bump(m, field) == [m EXCEPT ![field] = @ + 1]

\* Lines 193-195: the finally block, on every exit of findFavicon:
\* metrics.totalDuration += Date.now() - startTime.
Finally(m, t, now) ==
  [m EXCEPT !.totalDuration = @ + (now - task[t].startTime)]

\* The place of a findFavicon promise that settles now among those settled
\* so far: the reactions of settled promises are queued in this order.
SettleStamp ==
  1 + CHOOSE m \in { obs[u].settledAt : u \in Slots } :
        \A u \in Slots : obs[u].settledAt <= m

\* What cacheService.get(d) answers: the entry, or absent when the backend
\* is unreachable.
CacheAnswer(d) == IF env.cacheUp THEN cache[d] ELSE ABSENT

\* Mutant: an entry, once stored, is kept.
CacheStore_KeepFirst(d, v) ==
  IF env.cacheUp /\ cache[d] = ABSENT THEN [cache EXCEPT ![d] = v] ELSE cache

\* The entries after cacheService.set / setNotFound stored v for d: a
\* no-op when the backend is unreachable.
CacheStore(d, v) == IF env.cacheUp THEN [cache EXCEPT ![d] = v] ELSE cache

\* Mutant: every cache hit is taken for the negative sentinel.
IsSentinel_Always(cached) == TRUE

\* Mutant: the negative sentinel is not recognised and returned as a URL.
IsSentinel_Never(cached) == FALSE

\* Line 74: cached === 'NOT_FOUND'.
IsSentinel(cached) == cached = NOT_FOUND

\* Lines 71-81: the cache lookup and its three answers.
CacheGet(t) ==
  /\ task[t].pc = "get"
  /\ \/ \* cacheService.get raises: the exception leaves findFavicon
        /\ "get" \in env.cacheFaults
        /\ task' = [task EXCEPT ![t].pc = "settled", ![t].ret = Throws(CacheError)]
        /\ obs' = [obs EXCEPT ![t].gets = @ + 1, ![t].got = "fault",
                              ![t].cacheFaults = @ + 1,
                              ![t].settledAt = SettleStamp]
        /\ \E now \in env.clock : metrics' = Finally(metrics, t, now)
     \/ LET cached == CacheAnswer(Domain(t))
        IN /\ obs' = [obs EXCEPT ![t].gets = @ + 1, ![t].got = cached,
                                 ![t].settledAt =
                                   IF Truthy(cached) THEN SettleStamp ELSE @]
           /\ IF Truthy(cached)
              THEN IF IsSentinel(cached)
                   THEN /\ task' = [task EXCEPT ![t].pc = "settled",
                                                ![t].ret = Returns(NULL)]
                        /\ \E now \in env.clock :
                             metrics' = Finally(Bump(Bump(metrics, "cacheHits"),
                                                     "notFound"), t, now)
                   ELSE /\ task' = [task EXCEPT ![t].pc = "settled",
                                                ![t].ret = Returns(cached)]
                        /\ \E now \in env.clock :
                             metrics' = Finally(Bump(Bump(metrics, "cacheHits"),
                                                     "found"), t, now)
              ELSE /\ task' = [task EXCEPT ![t].pc = "head", ![t].proto = 1]
                   /\ metrics' = Bump(metrics, "cacheMisses")
  /\ UNCHANGED << recentFavicons, selectedFile, handled, env, file, run, prev, tests, domains, hasCb, batchPc, i, results, sorted, processed,
                  cache, events >>

\* The two most recent entries of a call history.
LastTwo(s) == IF Len(s) <= 2 THEN s ELSE SubSeq(s, Len(s) - 1, Len(s))

\* The history of one network call: the request `step` on the current
\* protocol, its outcome o, the responseUrl the client exposes and the
\* candidate URL the code derives from the answer ("" for none). The
\* history keeps the resolution's two most recent calls.
NetCall(t, step, o, responseUrl, cand) ==
  [obs EXCEPT ![t].netCalls = @ + 1,
              ![t].netResponses = IF o \in NetworkFailures THEN @ ELSE @ + 1,
              ![t].calls = LastTwo(Append(@, [proto |-> Protocol(t),
                                              step |-> step, o |-> o,
                                              responseUrl |-> responseUrl,
                                              cand |-> cand]))]

\* Mutant: no failure of the HEAD probe is singled out; every one leads to
\* the GET.
AfterHead_AlwaysGet(o) ==
  CASE Is2xx(o) -> "setHead"
    [] o = "3xx" -> "html"
    [] OTHER -> "getico"

\* Where the HEAD probe's outcome leads (lines 92-126).
AfterHead(o) ==
  CASE Is2xx(o) -> "setHead"
    [] o = "3xx" -> "html"
    [] o \in {"405", "ENOTFOUND"} -> "html"
    [] OTHER -> "getico"

\* Lines 88-109: the HEAD probe of /favicon.ico.
HeadProbe(t) ==
  /\ task[t].pc = "head"
  /\ \E o \in env.head, responseUrl \in env.responseUrls :
       LET cand == IF AfterHead(o) = "setHead"
                   THEN FinalUrl(responseUrl, FaviconIco(Protocol(t), Domain(t)))
                   ELSE ""
       IN /\ ~Is2xx(o) => responseUrl = ""
          /\ task' = [task EXCEPT ![t].pc = AfterHead(o), ![t].cand = cand]
          /\ obs' = NetCall(t, "head", o, responseUrl, cand)
  /\ UNCHANGED << recentFavicons, selectedFile, handled, env, file, run, prev, tests, domains, hasCb, batchPc, i, results, sorted, processed,
                  cache, metrics, events >>

\* A cache write that succeeds, then metrics.found++ and return finalUrl
\* (lines 101-103, 122-124, 176-178).
SetAndReturn(t) ==
  /\ cache' = CacheStore(Domain(t), task[t].cand)
  /\ \E now \in env.clock : metrics' = Finally(Bump(metrics, "found"), t, now)
  /\ task' = [task EXCEPT ![t].pc = "settled", ![t].ret = Returns(task[t].cand),
                          ![t].cand = ""]
  /\ obs' = [obs EXCEPT ![t].writes = Append(@, task[t].cand),
                        ![t].settledAt = SettleStamp]

\* Line 101: cacheService.set after the HEAD probe; a raise is caught by
\* catch (headError) at line 105, which goes on to the GET at line 112.
SetHead(t) ==
  /\ task[t].pc = "setHead"
  /\ \/ SetAndReturn(t)
     \/ /\ "set" \in env.cacheFaults
        /\ task' = [task EXCEPT ![t].pc = "getico", ![t].cand = ""]
        /\ obs' = [obs EXCEPT ![t].cacheFaults = @ + 1]
        /\ UNCHANGED << cache, metrics >>
  /\ UNCHANGED << recentFavicons, selectedFile, handled, env, file, run, prev, tests, domains, hasCb, batchPc, i, results, sorted, processed, events >>

\* Where the GET's outcome leads (lines 112-129).
AfterGet(o) == IF o = "data" THEN "setGet" ELSE "html"

\* Lines 112-125: the GET fallback of /favicon.ico.
GetFallback(t) ==
  /\ task[t].pc = "getico"
  /\ \E o \in env.get, responseUrl \in env.responseUrls :
       LET cand == IF AfterGet(o) = "setGet"
                   THEN FinalUrl(responseUrl, FaviconIco(Protocol(t), Domain(t)))
                   ELSE ""
       IN /\ o # "data" => responseUrl = ""
          /\ task' = [task EXCEPT ![t].pc = AfterGet(o), ![t].cand = cand]
          /\ obs' = NetCall(t, "get", o, responseUrl, cand)
  /\ UNCHANGED << recentFavicons, selectedFile, handled, env, file, run, prev, tests, domains, hasCb, batchPc, i, results, sorted, processed,
                  cache, metrics, events >>

\* Line 122: cacheService.set after the GET; a raise is caught at line 127.
SetGet(t) ==
  /\ task[t].pc = "setGet"
  /\ \/ SetAndReturn(t)
     \/ /\ "set" \in env.cacheFaults
        /\ task' = [task EXCEPT ![t].pc = "html", ![t].cand = ""]
        /\ obs' = [obs EXCEPT ![t].cacheFaults = @ + 1]
        /\ UNCHANGED << cache, metrics >>
  /\ UNCHANGED << recentFavicons, selectedFile, handled, env, file, run, prev, tests, domains, hasCb, batchPc, i, results, sorted, processed, events >>

\* Mutant: after the last protocol findFavicon returns null without the
\* cacheService.setNotFound of line 190.
NextProtocol_NoSentinel(tk) ==
  IF tk.proto < Len(protocols)
  THEN [tk EXCEPT !.pc = "head", !.proto = @ + 1, !.cand = "", !.left = << >>]
  ELSE [tk EXCEPT !.pc = "settled", !.ret = [kind |-> "value", url |-> NULL,
                                              err |-> CacheError],
                  !.cand = "", !.left = << >>]

\* Mutant: the loop over the protocols ends after its first iteration.
NextProtocol_GiveUp(tk) ==
  [tk EXCEPT !.pc = "setNotFound", !.cand = "", !.left = << >>]

\* Mutant: after the last protocol the loop starts over with the first.
NextProtocol_Retry(tk) ==
  [tk EXCEPT !.pc = "head",
             !.proto = IF tk.proto < Len(protocols) THEN @ + 1 ELSE 1,
             !.cand = "", !.left = << >>]

\* The end of one iteration of `for (const protocol of protocols)`: the
\* next protocol's probe, or line 190 after the last protocol.
NextProtocol(tk) ==
  IF tk.proto < Len(protocols)
  THEN [tk EXCEPT !.pc = "head", !.proto = @ + 1, !.cand = "", !.left = << >>]
  ELSE [tk EXCEPT !.pc = "setNotFound", !.cand = "", !.left = << >>]

\* Lines 133-186: the homepage fetch and the selector loop up to its first
\* candidate.
Html(t) ==
  /\ task[t].pc = "html"
  /\ \/ \E o \in env.html :
          /\ task' = [task EXCEPT ![t] = NextProtocol(@)]
          /\ obs' = NetCall(t, "html", o, "", "")
     \/ \E doc \in env.pages, responseUrl \in env.pageUrls :
          LET url == Protocol(t) \o "://" \o Domain(t)
              baseUrl == FinalUrl(responseUrl, url)
              cands == PageCands(doc, Protocol(t), baseUrl)
          IN /\ task' = [task EXCEPT ![t] =
                           IF cands = << >>
                           THEN NextProtocol(@)
                           ELSE [@ EXCEPT !.pc = "setHtml", !.cand = Head(cands),
                                          !.left = Tail(cands)]]
             /\ obs' = [NetCall(t, "html", "page", responseUrl,
                                IF cands = << >> THEN "" ELSE Head(cands))
                          EXCEPT ![t].page = doc]
  /\ UNCHANGED << recentFavicons, selectedFile, handled, env, file, run, prev, tests, domains, hasCb, batchPc, i, results, sorted, processed,
                  cache, metrics, events >>

\* Line 176: cacheService.set of a normalised candidate; a raise is caught
\* at line 179 and the selector loop continues.
SetHtml(t) ==
  /\ task[t].pc = "setHtml"
  /\ \/ SetAndReturn(t)
     \/ /\ "set" \in env.cacheFaults
        /\ task' = [task EXCEPT ![t] =
                      IF task[t].left = << >>
                      THEN NextProtocol(@)
                      ELSE [@ EXCEPT !.cand = Head(task[t].left),
                                     !.left = Tail(task[t].left)]]
        /\ obs' = [obs EXCEPT ![t].cacheFaults = @ + 1]
        /\ UNCHANGED << cache, metrics >>
  /\ UNCHANGED << recentFavicons, selectedFile, handled, env, file, run, prev, tests, domains, hasCb, batchPc, i, results, sorted, processed, events >>

\* Lines 190-192: the negative result is cached; a raise leaves findFavicon.
SetNotFound(t) ==
  /\ task[t].pc = "setNotFound"
  /\ \/ /\ cache' = CacheStore(Domain(t), NOT_FOUND)
        /\ \E now \in env.clock :
             metrics' = Finally(Bump(metrics, "notFound"), t, now)
        /\ task' = [task EXCEPT ![t].pc = "settled", ![t].ret = Returns(NULL),
                                ![t].cand = ""]
        /\ obs' = [obs EXCEPT ![t].writes = Append(@, NOT_FOUND),
                              ![t].settledAt = SettleStamp]
     \/ /\ "setNotFound" \in env.cacheFaults
        /\ task' = [task EXCEPT ![t].pc = "settled", ![t].ret = Throws(CacheError),
                                ![t].cand = ""]
        /\ obs' = [obs EXCEPT ![t].cacheFaults = @ + 1,
                              ![t].settledAt = SettleStamp]
        /\ \E now \in env.clock : metrics' = Finally(metrics, t, now)
        /\ UNCHANGED cache
  /\ UNCHANGED << recentFavicons, selectedFile, handled, env, file, run, prev, tests, domains, hasCb, batchPc, i, results, sorted, processed, events >>

(* ------------------------ processBatch (201-268) ----------------------- *)

\* Mutant: the slice is one record too wide.
Window_TooWide(start) ==
  { t \in 1..Len(domains) : start <= t /\ t <= start + CONCURRENT_REQUESTS }

\* Mutant: the slice starts one record early, inside the previous window.
Window_Overlap(start) ==
  { t \in 1..Len(domains) : start - 1 <= t /\ t < start + CONCURRENT_REQUESTS }

\* domains.slice(i, i + CONCURRENT_REQUESTS), as indices of the input.
Window(start) ==
  { t \in 1..Len(domains) : start <= t /\ t < start + CONCURRENT_REQUESTS }

\* Lines 213-218: `i < domains.length`, then batch.map starts every arrow
\* function of the window up to its first await, the cacheService.get of
\* findFavicon (line 66 counts the invocation and line 67 reads the clock
\* first).
StartWindow ==
  /\ batchPc = "loop"
  /\ i <= Len(domains)
  /\ batchPc' = "await"
  /\ \E startTime \in [Window(i) -> env.clock] :
       task' = [t \in Slots |->
                  IF t \in Window(i)
                  THEN [task[t] EXCEPT !.pc = "get", !.startTime = startTime[t]]
                  ELSE task[t]]
  /\ obs' = [t \in Slots |->
               IF t \in Window(i) THEN [obs[t] EXCEPT !.invoked = @ + 1] ELSE obs[t]]
  /\ metrics' = [metrics EXCEPT !.totalRequests = @ + Cardinality(Window(i))]
  /\ UNCHANGED << recentFavicons, selectedFile, handled, env, file, run, prev, tests, domains, hasCb, i, results, sorted, processed, cache, events >>

\* Lines 222-236: the result built from findFavicon's return value.
ResultOf(rec, favicon) ==
  IF Truthy(favicon)
  THEN [rank |-> rec.rank, domain |-> rec.domain, favicon_url |-> favicon,
        status |-> "found", error |-> ""]
  ELSE [rank |-> rec.rank, domain |-> rec.domain, favicon_url |-> "",
        status |-> "not_found", error |-> "No favicon found"]

\* Lines 246-252: the result built from a caught exception.
ErrorResult(rec, e) ==
  [rank |-> rec.rank, domain |-> rec.domain, favicon_url |-> "",
   status |-> "error",
   error |-> IF e.isError THEN e.message ELSE "Unknown error"]

\* onProgress({ processed, total, result }) as the sink sees it.
Event(t, p, result) ==
  [processed |-> p, total |-> total, record |-> t, status |-> result.status]

\* The events after the callback was called once more (if supplied).
Emit(ev, t, p, result) == IF hasCb THEN Append(ev, Event(t, p, result)) ELSE ev

\* A JavaScript Number is an IEEE 754 double: a significand of Precision
\* bits. A positive double is written [m, e]: the binary numeral m (most
\* significant bit first) times 2^e; zero has the numeral of zeros.
Precision == 53

Zeros(k) == [j \in 1..k |-> 0]

\* A binary numeral without its leading zeros.
RECURSIVE Strip(_)
Strip(bits) ==
  IF bits # << >> /\ Head(bits) = 0 THEN Strip(Tail(bits)) ELSE bits

\* The binary numeral of a natural number, and the number of a numeral.
RECURSIVE Bits(_)
Bits(k) == IF k = 0 THEN << >> ELSE Append(Bits(k \div 2), k % 2)

RECURSIVE BitsValue(_)
BitsValue(bits) ==
  IF bits = << >> THEN 0
  ELSE 2 * BitsValue(SubSeq(bits, 1, Len(bits) - 1)) + bits[Len(bits)]

\* The arithmetic on numerals is done ChunkBits bits at a time.
ChunkBits == 15

\* The numeral of k in w bits.
PadBits(k, w) == Zeros(w - Len(Bits(k))) \o Bits(k)

\* A numeral of the sum of two numerals and a carry (it can start with
\* zeros).
RECURSIVE AddBits(_, _, _)
AddBits(a, b, carry) ==
  IF a = << >> /\ b = << >> THEN Bits(carry)
  ELSE LET low(c) == IF Len(c) > ChunkBits
                     THEN SubSeq(c, Len(c) - ChunkBits + 1, Len(c)) ELSE c
           high(c) == IF Len(c) > ChunkBits
                      THEN SubSeq(c, 1, Len(c) - ChunkBits) ELSE << >>
           sum == BitsValue(low(a)) + BitsValue(low(b)) + carry
       IN AddBits(high(a), high(b), sum \div 2^ChunkBits)
            \o PadBits(sum % 2^ChunkBits, ChunkBits)

\* The numeral of k times a numeral.
RECURSIVE MulBits(_, _)
MulBits(a, k) ==
  IF k = 0 THEN << >>
  ELSE AddBits(IF k % 2 = 1 THEN a ELSE << >>, Append(MulBits(a, k \div 2), 0), 0)

\* The double nearest to bits * 2^e (plus less than 2^e more when sticky),
\* a tie to the even significand.
Round(bits, e, sticky) ==
  LET b == Strip(bits)
      extra == Len(b) - Precision
  IN IF extra <= 0
     THEN [m |-> b \o Zeros(0 - extra), e |-> e + extra]
     ELSE LET kept == SubSeq(b, 1, Precision)
              rest == sticky \/ \E j \in (Precision + 2)..Len(b) : b[j] = 1
              up == b[Precision + 1] = 1 /\ (rest \/ kept[Precision] = 1)
              m == IF up THEN Strip(AddBits(kept, << 1 >>, 0)) ELSE kept
          IN IF Len(m) > Precision
             THEN [m |-> SubSeq(m, 1, Precision), e |-> e + extra + 1]
             ELSE [m |-> m, e |-> e + extra]

\* The number of times p is doubled to reach n.
RECURSIVE Scale(_, _)
Scale(p, n) == IF p >= n THEN 0 ELSE 1 + Scale(2 * p, n)

\* The long division by n (below 2^16), ChunkBits bits at a time, after
\* the numeral bits, which has f
\* bits behind the point, with remainder r, until the double and its
\* rounding are determined.
RECURSIVE Quotient(_, _, _, _)
Quotient(bits, r, n, f) ==
  IF r = 0 \/ Len(bits) >= Precision + 2
  THEN [bits |-> bits, e |-> 0 - f, sticky |-> r > 0]
  ELSE Quotient(bits \o PadBits((r * 2^ChunkBits) \div n, ChunkBits),
                (r * 2^ChunkBits) % n, n, f + ChunkBits)

\* p / n of two naturals as doubles, 0 < n < 2^16.
Divide(p, n) ==
  IF p = 0 THEN [m |-> Zeros(Precision), e |-> 0]
  ELSE LET s == Scale(p, n)
           q == Quotient(Bits((p * 2^s) \div n), (p * 2^s) % n, n, s)
       IN Round(q.bits, q.e, q.sticky)

\* x * k for a double x and a natural k.
Multiply(x, k) == Round(MulBits(x.m, k), x.e, FALSE)

\* x.toFixed(1) as the number of tenths: the integer t for which t / 10 is
\* nearest to x, the larger of two.
ToFixed1(x) ==
  LET b == Strip(MulBits(x.m, 10))
      f == 0 - x.e
  IN IF f <= 0 THEN BitsValue(b \o Zeros(0 - f))
     ELSE IF Len(b) < f THEN 0
     ELSE BitsValue(SubSeq(b, 1, Len(b) - f)) + b[Len(b) - f + 1]

\* index.ts line 193: ((processed / total) * 100).toFixed(1), as the
\* number of tenths.
Percentage(p, n) == ToFixed1(Multiply(Divide(p, n), 100))

\* What one call of the callback can do: return, or raise a value.
CallbackOutcomes ==
  IF hasCb
  THEN {[threw |-> FALSE, e |-> CacheError]}
         \cup {[threw |-> TRUE, e |-> e] : e \in env.cbThrows}
  ELSE {[threw |-> FALSE, e |-> CacheError]}

\* Lines 244-260: the catch block, entered with exception e when processed
\* is p, the events are ev and the callback has raised n times.
CatchBlock(t, e, p, ev, n) ==
  \E out \in CallbackOutcomes :
    /\ metrics' = Bump(metrics, "errors")
    /\ processed' = p + 1
    /\ events' = Emit(ev, t, p + 1, ErrorResult(domains[t], e))
    /\ task' = [task EXCEPT
                  ![t].pc = IF out.threw THEN "rejected" ELSE "done",
                  ![t].result = IF out.threw THEN @
                                ELSE ErrorResult(domains[t], e)]
    /\ obs' = [obs EXCEPT
                 ![t].counted = @ + (p + 1 - processed),
                 ![t].cbCalls = @ + (Len(events') - Len(events)),
                 ![t].cbThrows = @ + n + (IF out.threw THEN 1 ELSE 0)]

\* Lines 220-243: the try block after findFavicon returned favicon.
TryBlock(t, favicon) ==
  \E out \in CallbackOutcomes :
    LET result == ResultOf(domains[t], favicon)
        ev == Emit(events, t, processed + 1, result)
    IN IF out.threw
       THEN CatchBlock(t, out.e, processed + 1, ev, 1)
       ELSE /\ processed' = processed + 1
            /\ events' = ev
            /\ task' = [task EXCEPT ![t].pc = "done", ![t].result = result]
            /\ obs' = [obs EXCEPT ![t].counted = @ + 1,
                                  ![t].cbCalls = @ + (Len(ev) - Len(events))]
            /\ UNCHANGED metrics

\* Mutant: the continuations of settled resolutions run in any order.
Resumes_AnyOrder(t) == task[t].pc = "settled"

\* `await findFavicon(domain)` (lines 220, 274): the continuation of the
\* awaiting function is queued when findFavicon's promise settles, and the
\* queue is first in, first out: it runs when no resolution that settled
\* earlier still waits for its own.
Resumes(t) ==
  /\ task[t].pc = "settled"
  /\ \A u \in Slots \ {t} :
       task[u].pc = "settled" => obs[u].settledAt >= obs[t].settledAt

\* Lines 218-260: the arrow function resumes once findFavicon has settled.
Complete(t) ==
  /\ Resumes(t)
  /\ IF task[t].ret.kind = "value"
     THEN TryBlock(t, task[t].ret.url)
     ELSE CatchBlock(t, task[t].ret.err, processed, events, 0)
  /\ UNCHANGED << recentFavicons, selectedFile, handled, env, file, run, prev, tests, domains, hasCb, batchPc, i, results, sorted, cache >>

\* Mutant: the results of failed resolutions are filtered out.
IsNotError(r) == r.status # "error"
BatchResults_DropErrors(start) ==
  SelectSeq([k \in 1..Cardinality(Window(start)) |-> task[start + k - 1].result],
            IsNotError)

\* Promise.all(batchPromises) fulfils with the results in window order.
BatchResults(start) ==
  [k \in 1..Cardinality(Window(start)) |-> task[start + k - 1].result]

\* Mutant: the loop goes on as soon as one promise of the window is
\* fulfilled (a race instead of Promise.all).
WindowDone_Eager ==
  /\ batchPc = "await"
  /\ \E t \in Window(i) : task[t].pc = "done"
  /\ results' = results \o BatchResults(i)
  /\ i' = i + CONCURRENT_REQUESTS
  /\ batchPc' = "loop"
  /\ UNCHANGED << recentFavicons, selectedFile, handled, env, file, run, prev, tests, domains, hasCb, sorted,
                  processed, cache, metrics, task, obs, events >>

\* Lines 263-264 and the loop increment: every promise of the window is
\* fulfilled, the results are pushed in input order, i += CONCURRENT_REQUESTS.
WindowDone ==
  /\ batchPc = "await"
  /\ \A t \in Window(i) : task[t].pc = "done"
  /\ results' = results \o BatchResults(i)
  /\ i' = i + CONCURRENT_REQUESTS
  /\ batchPc' = "loop"
  /\ UNCHANGED << recentFavicons, selectedFile, handled, env, file, run, prev, tests, domains, hasCb, sorted, processed, cache, metrics, task,
                  obs, events >>

\* Line 263: Promise.all rejects as soon as one promise of the window
\* rejects; the exception leaves processBatch. The window's other
\* resolutions are not cancelled and run on.
WindowRejected ==
  /\ batchPc = "await"
  /\ \E t \in Window(i) : task[t].pc = "rejected"
  /\ batchPc' = "rejected"
  /\ UNCHANGED << recentFavicons, selectedFile, handled, env, file, run, prev, tests, domains, hasCb, i, results, sorted, processed, cache,
                  metrics, task, obs, events >>

\* Line 267: the loop ends, processBatch returns results.
Return ==
  /\ batchPc = "loop"
  /\ i > Len(domains)
  /\ batchPc' = "returned"
  /\ UNCHANGED << recentFavicons, selectedFile, handled, env, file, run, prev, tests, domains, hasCb, i, results, sorted, processed, cache,
                  metrics, task, obs, events >>

(* ----------------------- processCsvFile (317-321) ---------------------- *)

\* Mutant: a tie sorts like "after", which reverses equal ranks.
After_OrEqual(a, b) == a.rank >= b.rank

\* The comparator of line 321, (a, b) => a.rank - b.rank, as "a sorts
\* strictly after b".
After(a, b) == a.rank > b.rank

\* Array.prototype.sort is stable: x goes behind every element it does not
\* sort strictly before.
RECURSIVE Insert(_, _)
Insert(x, s) ==
  IF s = << >> THEN << x >>
  ELSE IF After(Head(s), x) THEN << x >> \o s
  ELSE << Head(s) >> \o Insert(x, Tail(s))

RECURSIVE SortByRank(_)
SortByRank(s) ==
  IF s = << >> THEN << >>
  ELSE Insert(s[Len(s)], SortByRank(SubSeq(s, 1, Len(s) - 1)))

\* Lines 318-321: results.sort by rank once processBatch has returned.
Sort ==
  /\ batchPc = "returned"
  /\ sorted' = SortByRank(results)
  /\ batchPc' = "sorted"
  /\ UNCHANGED << recentFavicons, selectedFile, handled, env, file, run, prev, tests, domains, hasCb, i, results, processed, cache, metrics,
                  task, obs, events >>

(* --------------------- testSingleDomain (273-284) ---------------------- *)

\* index.ts:128-173 call testSingleDomain(domain), which calls findFavicon
\* at line 275 whatever processBatch is doing; findFavicon runs to its
\* first await (line 66 counts the invocation and line 67 reads the clock
\* first).
TestStart(t) ==
  /\ task[t].pc = "idle"
  /\ \E d \in Domains : tests' = [tests EXCEPT ![t] = d]
  /\ \E startTime \in env.clock :
       task' = [task EXCEPT ![t].pc = "get", ![t].startTime = startTime]
  /\ obs' = [obs EXCEPT ![t].invoked = @ + 1]
  /\ metrics' = Bump(metrics, "totalRequests")
  /\ UNCHANGED << recentFavicons, selectedFile, handled, env, file, run, prev, domains, hasCb, batchPc, i, results,
                  sorted, processed, cache, events >>

\* Mutant: testSingleDomain reports found whatever findFavicon returned.
TestResult_AlwaysFound(domain, faviconUrl) ==
  [rank |-> 0, domain |-> domain,
   favicon_url |-> IF Truthy(faviconUrl) THEN faviconUrl ELSE "",
   status |-> "found", error |-> ""]

\* Lines 278-283: the object testSingleDomain returns.
TestResult(domain, faviconUrl) ==
  [rank |-> 0, domain |-> domain,
   favicon_url |-> IF Truthy(faviconUrl) THEN faviconUrl ELSE "",
   status |-> IF Truthy(faviconUrl) THEN "found" ELSE "not_found",
   error |-> ""]

\* Lines 275-283: findFavicon has settled; testSingleDomain returns its
\* result, or the exception of findFavicon leaves it.
TestDone(t) ==
  /\ Resumes(t)
  /\ task' = [task EXCEPT
                ![t].pc = IF task[t].ret.kind = "value" THEN "done" ELSE "rejected",
                ![t].result = IF task[t].ret.kind = "value"
                              THEN TestResult(tests[t], task[t].ret.url)
                              ELSE @]
  /\ UNCHANGED << recentFavicons, selectedFile, handled, env, file, run, prev, tests, domains, hasCb, batchPc, i, results,
                  sorted, processed, cache, metrics, obs, events >>

(* ----------------------- processCsvFile (289-315) ---------------------- *)

Digits == <<"0", "1", "2", "3", "4", "5", "6", "7", "8", "9">>

IsDigit(c) == \E d \in 1..10 : Digits[d] = c

DigitValue(c) == (CHOOSE d \in 1..10 : Digits[d] = c) - 1

\* The digits of radix 16 above 9, in both cases.
HexLetters == <<"a", "b", "c", "d", "e", "f">>
HexCapitals == <<"A", "B", "C", "D", "E", "F">>

IsHexDigit(c) ==
  IsDigit(c) \/ \E d \in 1..6 : HexLetters[d] = c \/ HexCapitals[d] = c

HexDigitValue(c) ==
  IF IsDigit(c) THEN DigitValue(c)
  ELSE 9 + CHOOSE d \in 1..6 : HexLetters[d] = c \/ HexCapitals[d] = c

\* The decimal digits a string starts with.
RECURSIVE LeadingDecimal(_)
LeadingDecimal(str) ==
  IF Len(str) > 0 /\ IsDigit(SubSeq(str, 1, 1))
  THEN SubSeq(str, 1, 1) \o LeadingDecimal(SubSeq(str, 2, Len(str)))
  ELSE ""

\* The hexadecimal digits a string starts with.
RECURSIVE LeadingHex(_)
LeadingHex(str) ==
  IF Len(str) > 0 /\ IsHexDigit(SubSeq(str, 1, 1))
  THEN SubSeq(str, 1, 1) \o LeadingHex(SubSeq(str, 2, Len(str)))
  ELSE ""

\* parseInt's sign: a leading "-" or "+".
Sign(str) ==
  IF StartsWith(str, "-") THEN "-" ELSE IF StartsWith(str, "+") THEN "+" ELSE ""

\* parseInt without radix reads radix 16 after "0x" or "0X".
HexPrefix(str) ==
  IF StartsWith(str, "0x") \/ StartsWith(str, "0X") THEN SubSeq(str, 1, 2) ELSE ""

\* The characters of a string parseInt converts: after leading blanks a
\* sign, then "0x" and hexadecimal digits, or decimal digits; "" when no
\* digit follows (parseInt gives NaN).
LeadingDigits(str) ==
  LET unsigned == SubSeq(TrimLeft(str), Len(Sign(TrimLeft(str))) + 1,
                         Len(TrimLeft(str)))
      prefix == HexPrefix(unsigned)
      digits == IF prefix = "" THEN LeadingDecimal(unsigned)
                ELSE LeadingHex(SubSeq(unsigned, 3, Len(unsigned)))
  IN IF digits = "" THEN "" ELSE Sign(TrimLeft(str)) \o prefix \o digits

RECURSIVE DecimalValue(_)
DecimalValue(ds) ==
  IF Len(ds) = 0 THEN 0
  ELSE 10 * DecimalValue(SubSeq(ds, 1, Len(ds) - 1))
         + DigitValue(SubSeq(ds, Len(ds), Len(ds)))

RECURSIVE HexValue(_)
HexValue(ds) ==
  IF Len(ds) = 0 THEN 0
  ELSE 16 * HexValue(SubSeq(ds, 1, Len(ds) - 1))
         + HexDigitValue(SubSeq(ds, Len(ds), Len(ds)))

\* The integer parseInt gives for the characters it converts (numbers of
\* up to nine digits: larger ones are no ranks of RowSet).
ParseInt(read) ==
  LET unsigned == SubSeq(read, Len(Sign(read)) + 1, Len(read))
      magnitude == IF HexPrefix(unsigned) = "" THEN DecimalValue(unsigned)
                   ELSE HexValue(SubSeq(unsigned, 3, Len(unsigned)))
  IN IF Sign(read) = "-" THEN 0 - magnitude ELSE magnitude

\* Line 312: parseInt(row[0]) || 0 (NaN and 0 both give 0).
Rank(cell) ==
  IF LeadingDigits(cell) = "" THEN 0 ELSE ParseInt(LeadingDigits(cell))

\* Line 302: from_line: 2, the parser starts at the file's second line.
FromLine(lines) == IF lines = << >> THEN << >> ELSE Tail(lines)

\* Line 300: skip_empty_lines: true; with trim a line of blanks only is
\* empty as well. A line has at least one cell.
EmptyLine(line) == Len(line) = 1 /\ Trim(line[1]) = ""

NotEmptyLine(line) == ~EmptyLine(line)

\* The lines the parser makes records of: from the second line on, the
\* empty ones skipped.
RecordLines(lines) == SelectSeq(FromLine(lines), NotEmptyLine)

\* Lines 299-303: parse(fileContent, {skip_empty_lines: true, trim: true,
\* from_line: 2}): the records of the non-empty lines from the second
\* line on, every cell trimmed.
ParseCsv(lines) ==
  [k \in 1..Len(RecordLines(lines)) |->
     [c \in 1..Len(RecordLines(lines)[k]) |-> Trim(RecordLines(lines)[k][c])]]

\* csv-parse without relax_column_count raises on a record whose column
\* count differs from the first record's.
ParseThrows(lines) ==
  \E k \in 1..Len(RecordLines(lines)) :
    Len(RecordLines(lines)[k]) # Len(RecordLines(lines)[1])

\* Lines 307-310: the row filter.
ValidRow(row) == Len(row) >= 2 /\ row[2] # "" /\ Trim(row[2]) # ""

\* Lines 306-315: filter, map to DomainRecord, filter.
NonEmptyDomain(record) == record.domain # ""

\* Mutant: a row whose rank cell holds no number is dropped.
HasRank(row) == ValidRow(row) /\ LeadingDigits(row[1]) # ""
DomainRecords_SkipUnranked(rows) ==
  LET kept == SelectSeq(rows, HasRank)
  IN [k \in 1..Len(kept) |->
        [rank |-> Rank(kept[k][1]), domain |-> Trim(kept[k][2])]]

DomainRecords(rows) ==
  LET kept == SelectSeq(rows, ValidRow)
  IN SelectSeq([k \in 1..Len(kept) |->
                  [rank |-> Rank(kept[k][1]), domain |-> Trim(kept[k][2])]],
               NonEmptyDomain)

\* Lines 298-318: the file is read and parsed and processBatch is entered
\* with the DomainRecords; an exception of the parser leaves
\* processCsvFile.
ReadCsv ==
  /\ batchPc = "read"
  /\ IF ParseThrows(file)
     THEN batchPc' = "parseError" /\ UNCHANGED domains
     ELSE batchPc' = "loop" /\ domains' = DomainRecords(ParseCsv(file))
  /\ UNCHANGED << recentFavicons, selectedFile, handled, env, file, run, prev, tests, hasCb, i, results, sorted,
                  processed, cache, metrics, task, obs, events >>

\* Lines 324-333: the data rows stringify writes below the header row.
OutputRows(rs) ==
  [k \in 1..Len(rs) |->
     [rank |-> rs[k].rank, domain |-> rs[k].domain,
      favicon_url |-> rs[k].favicon_url, status |-> rs[k].status,
      error |-> rs[k].error]]

(* --------------------------- frontend (App.tsx) ----------------------- *)

\* App.tsx line 55: slice(0, 20), "Keep last 20".
KeepLast == 20

\* String.prototype.endsWith
EndsWith(str, suffix) ==
  /\ Len(str) >= Len(suffix)
  /\ SubSeq(str, Len(str) - Len(suffix) + 1, Len(str)) = suffix

\* event.target.files?.[0]: no file, or the name of the file chosen.
FileNames == { NULL, "domains.csv", "notes.txt" }

\* The rank of the next found result pushed: the ranks go round 1..MaxRank
\* from the newest entry shown.
NextRank ==
  IF recentFavicons = << >> THEN 1 ELSE (Head(recentFavicons).rank % MaxRank) + 1

\* data.lastResult of a 'progress' event: a found result, a found result
\* without URL, a not_found result, an error result.
LastResults ==
  { [rank |-> NextRank, domain |-> "a.io",
     favicon_url |-> "https://a.io/favicon.ico", status |-> "found"],
    [rank |-> NextRank, domain |-> "a.io", favicon_url |-> "", status |-> "found"],
    [rank |-> NextRank, domain |-> "a.io", favicon_url |-> "", status |-> "not_found"],
    [rank |-> NextRank, domain |-> "a.io", favicon_url |-> "", status |-> "error"] }

\* Array.prototype.slice(0, n)
Slice(arr, n) == SubSeq(arr, 1, IF Len(arr) < n THEN Len(arr) ELSE n)

\* Mutant: the newest result is put last.
Updated_OldestFirst(shown, lastResult) ==
  Slice(shown \o << lastResult >>, KeepLast)

\* App.tsx line 55: [data.lastResult, ...prev].slice(0, 20)
Updated(shown, lastResult) == Slice(<< lastResult >> \o shown, KeepLast)

\* App.tsx lines 49-59: socket.on('progress', ...).
OnProgress ==
  /\ \E lastResult \in LastResults :
       /\ recentFavicons' =
            IF lastResult.status = "found" /\ Truthy(lastResult.favicon_url)
            THEN Updated(recentFavicons, lastResult)
            ELSE recentFavicons
       /\ handled' = [handler |-> "progress", input |-> lastResult.status]
  /\ UNCHANGED << selectedFile, env, file, run, prev, tests, domains, hasCb,
                  batchPc, i, results, sorted, processed, cache, metrics, task,
                  obs, events >>

\* App.tsx lines 70-84: handleFileChange.
HandleFileChange ==
  /\ \E name \in FileNames :
       /\ handled' = [handler |-> "fileChange", input |-> name]
       /\ IF name = NULL \/ ~EndsWith(name, ".csv")
          THEN UNCHANGED << recentFavicons, selectedFile >>
          ELSE selectedFile' = name /\ recentFavicons' = << >>
  /\ UNCHANGED << env, file, run, prev, tests, domains, hasCb, batchPc, i,
                  results, sorted, processed, cache, metrics, task, obs, events >>

\* App.tsx lines 86-98: handleSubmit up to the request.
HandleSubmit ==
  /\ handled' = [handler |-> "submit", input |-> selectedFile]
  /\ IF selectedFile = NULL
     THEN UNCHANGED recentFavicons
     ELSE recentFavicons' = << >>
  /\ UNCHANGED << selectedFile, env, file, run, prev, tests, domains, hasCb,
                  batchPc, i, results, sorted, processed, cache, metrics, task,
                  obs, events >>

(* ------------------------------ second run ---------------------------- *)

\* processBatch is called again on the same input once its first call has
\* returned: the locals of lines 209-211 are fresh, while the cache entries
\* and the module-level metrics (lines 51-59) are those the first call
\* left.
Rerun ==
  /\ batchPc = "returned"
  /\ run = 1
  /\ run' = 2
  /\ prev' = results
  /\ batchPc' = "loop"
  /\ i' = 1
  /\ results' = << >>
  /\ processed' = 0
  /\ task' = [t \in Slots |-> IF t \in Tasks THEN Task0 ELSE task[t]]
  /\ obs' = [t \in Slots |-> IF t \in Tasks THEN Obs0 ELSE obs[t]]
  /\ events' = << >>
  /\ UNCHANGED << recentFavicons, selectedFile, handled, env, file, tests, domains, hasCb, sorted, cache, metrics >>

(* ---------------------------- specification --------------------------- *)

Resolve(t) ==
  \/ CacheGet(t)
  \/ HeadProbe(t)
  \/ SetHead(t)
  \/ GetFallback(t)
  \/ SetGet(t)
  \/ Html(t)
  \/ SetHtml(t)
  \/ SetNotFound(t)

Next ==
  \/ StartWindow
  \/ \E t \in Tasks : Resolve(t)
  \/ \E t \in Tasks : Complete(t)
  \/ WindowDone
  \/ WindowRejected
  \/ Return
  \/ Sort

Spec == Init /\ [][Next]_vars

SpecResolver == InitResolver /\ [][Next]_vars

SpecColdCache == InitColdCache /\ [][Next]_vars

SpecHtml == InitHtml /\ [][Next]_vars

\* A batch run in which every network call and every cache call comes back
\* (the 5 s request timeout of line 25 ends a network call that gets no
\* answer) and the event loop runs every continuation that is ready.
SpecLive == Init /\ [][Next]_vars /\ WF_vars(Next)

\* A batch run with /api/test-domain requests arriving beside it.
NextServer ==
  \/ Next
  \/ \E t \in Tests : TestStart(t)
  \/ \E t \in Tests : Resolve(t)
  \/ \E t \in Tests : TestDone(t)

SpecServer == InitServer /\ [][NextServer]_vars

\* The frontend on its own: progress events, file selections and
\* submissions in any order, the server at rest.
InitApp ==
  /\ env = BatchEnv
  /\ domains = << >>
  /\ hasCb = FALSE
  /\ cache = [d \in Domains |-> ABSENT]
  /\ Entered

NextApp == OnProgress \/ HandleFileChange \/ HandleSubmit

SpecApp == InitApp /\ [][NextApp]_vars

\* processCsvFile from the reading of the file on.
NextCsv == ReadCsv \/ Next

SpecCsv == InitCsv /\ [][NextCsv]_vars

\* Two consecutive batch runs over the same input.
NextRerun == Next \/ Rerun

SpecRerun == InitRerun /\ [][NextRerun]_vars

(* ------------------------------- claims ------------------------------- *)

Records == 1..Len(domains)

\* processBatch (or processCsvFile after it) has returned its result list.
BatchReturned == batchPc \in {"returned", "sorted"}

\* The record's arrow function has run to its end.
Finished(t) == task[t].pc \in {"done", "rejected"}

\* findFavicon has been entered for the record and has not settled yet.
InFlight ==
  { t \in Tasks : task[t].pc \in
      {"get", "head", "setHead", "getico", "setGet", "html", "setHtml",
       "setNotFound"} }

\* C1: when processBatch returns, results has the length of the input and
\* its k-th element carries the rank and the domain of the k-th input
\* record, whatever the resolutions did.
C1_OneResultPerRecord ==
  BatchReturned =>
    /\ Len(results) = Len(domains)
    /\ \A k \in 1..Len(results) :
         /\ results[k].rank = domains[k].rank
         /\ results[k].domain = domains[k].domain

\* A returned batch of three records whose resolutions returned a URL,
\* returned null and threw.
C1_Witness ==
  /\ batchPc = "returned"
  /\ Len(results) = 3
  /\ \E a, b, c \in Records :
       /\ task[a].ret.kind = "value" /\ results[a].status = "found"
       /\ task[b].ret.kind = "value" /\ results[b].status = "not_found"
       /\ task[c].ret.kind = "throw" /\ results[c].status = "error"

RECURSIVE WithRank(_, _)
WithRank(s, r) ==
  IF s = << >> THEN << >>
  ELSE IF Head(s).rank = r THEN << Head(s) >> \o WithRank(Tail(s), r)
  ELSE WithRank(Tail(s), r)

\* C2: the sorted result set ascends by rank, and the results of one rank
\* stand in it in the order of their input records (results is in input
\* order, whatever the completion order was).
C2_SortedStable ==
  batchPc = "sorted" =>
    /\ Len(sorted) = Len(results)
    /\ \A k \in 1..Len(sorted) - 1 : sorted[k].rank <= sorted[k + 1].rank
    /\ \A r \in { rec.rank : rec \in RecordSet } :
         WithRank(sorted, r) = WithRank(results, r)
    /\ \A k \in 1..Len(results) : results[k].rank = domains[k].rank

\* A sorted run whose input was out of rank order and held a rank tie of
\* two different results, the later of which completed first.
C2_Witness ==
  /\ batchPc = "sorted"
  /\ \E j, k \in Records : j < k /\ results[j].rank > results[k].rank
  /\ \E j, k \in Records :
       /\ j < k
       /\ results[j].rank = results[k].rank
       /\ results[j] # results[k]
       /\ \E m, n \in 1..Len(events) :
            m < n /\ events[m].record = k /\ events[n].record = j

\* C3: at most CONCURRENT_REQUESTS resolutions are in flight.
C3_InFlightBound == Cardinality(InFlight) <= CONCURRENT_REQUESTS

\* A full window in flight, of an input longer than a window, with one
\* resolution at its last step.
C3_Witness ==
  /\ Len(domains) > CONCURRENT_REQUESTS
  /\ Cardinality(InFlight) = CONCURRENT_REQUESTS
  /\ \E t \in InFlight : task[t].pc = "setNotFound"

\* C4: processBatch never completes by throwing.
C4_NeverThrows == batchPc # "rejected"

\* The record's resolution met nothing but network outcomes: no cache call
\* raised and the progress callback returned.
OnlyNetwork(t) == obs[t].cacheFaults = 0 /\ obs[t].cbThrows = 0

\* findFavicon has settled for the record.
Settled(t) == task[t].ret.kind # "pending"

\* C5: when only network calls fail, findFavicon does not throw and the
\* record's status is found or not_found; when every network call of the
\* resolution failed, findFavicon returns null, the record's status is
\* not_found and the negative sentinel is the resolution's cache write.
C5_NetworkFailuresNeverError ==
  \A t \in Records :
    OnlyNetwork(t) =>
      /\ task[t].ret.kind # "throw"
      /\ task[t].pc = "done" => task[t].result.status \in {"found", "not_found"}
      /\ (Settled(t) /\ obs[t].netCalls > 0 /\ obs[t].netResponses = 0) =>
           /\ task[t].ret = Returns(NULL)
           /\ obs[t].writes = << NOT_FOUND >>
           /\ cache[Domain(t)] = NOT_FOUND
           /\ task[t].pc = "done" => task[t].result.status = "not_found"

\* A finished resolution all of whose six network calls failed.
C5_Witness ==
  \E t \in Records :
    /\ OnlyNetwork(t)
    /\ task[t].pc = "done"
    /\ obs[t].netCalls = 6
    /\ obs[t].netResponses = 0
    /\ task[t].result.status = "not_found"
    /\ cache[Domain(t)] = NOT_FOUND

\* cacheService.get answered the record's resolution with a URL.
GotUrl(t) == obs[t].got \notin {"none", "fault", ABSENT, NOT_FOUND, ""}

\* C6: when cacheService.get answers a URL, findFavicon makes no network
\* call and no cache write and returns that URL; the record's status is
\* found with that URL.
C6_CachedUrlShortCircuits ==
  \A t \in Records :
    GotUrl(t) =>
      /\ obs[t].netCalls = 0
      /\ obs[t].writes = << >>
      /\ obs[t].cacheFaults = 0
      /\ task[t].ret = Returns(obs[t].got)
      /\ (task[t].pc = "done" /\ obs[t].cbThrows = 0) =>
           /\ task[t].result.status = "found"
           /\ task[t].result.favicon_url = obs[t].got

\* A finished record whose cache lookup answered a URL.
C6_Witness ==
  \E t \in Records :
    /\ GotUrl(t)
    /\ task[t].pc = "done"
    /\ task[t].result.status = "found"
    /\ cache[Domain(t)] = task[t].result.favicon_url

\* C7: when cacheService.get answers the negative sentinel, findFavicon
\* makes no network call and no cache write and returns null; the record's
\* status is not_found.
C7_SentinelShortCircuits ==
  \A t \in Records :
    obs[t].got = NOT_FOUND =>
      /\ obs[t].netCalls = 0
      /\ obs[t].writes = << >>
      /\ obs[t].cacheFaults = 0
      /\ task[t].ret = Returns(NULL)
      /\ (task[t].pc = "done" /\ obs[t].cbThrows = 0) =>
           /\ task[t].result.status = "not_found"
           /\ task[t].result.favicon_url = ""

\* A finished record whose cache lookup answered the sentinel.
C7_Witness ==
  \E t \in Records :
    /\ obs[t].got = NOT_FOUND
    /\ task[t].pc = "done"
    /\ task[t].result.status = "not_found"
    /\ obs[t].netCalls = 0

\* C8: a result of status error has a non-empty message, and its record's
\* resolution made no cache write.
C8_ErrorNeverCached ==
  \A t \in Records :
    (task[t].pc = "done" /\ task[t].result.status = "error") =>
      /\ task[t].result.error # ""
      /\ obs[t].writes = << >>

\* C9: processed counts each finished resolution once and never exceeds
\* total; a supplied callback has been called once per finished record,
\* the k-th call with processed = k and total = the input length.
C9_ProgressExactlyOnce ==
  /\ processed = Cardinality({ t \in Records : Finished(t) })
  /\ processed <= total
  /\ \A t \in Records : obs[t].counted = IF Finished(t) THEN 1 ELSE 0
  /\ hasCb =>
       /\ Len(events) = processed
       /\ \A k \in 1..Len(events) :
            events[k].processed = k /\ events[k].total = total
       /\ \A t \in Records :
            Cardinality({ k \in 1..Len(events) : events[k].record = t })
              = IF Finished(t) THEN 1 ELSE 0

\* C10: findFavicon is invoked once for a record when its window starts
\* and never again, whatever it returned or threw; a returned batch has
\* invoked it exactly once for every record.
C10_InvokedOnce ==
  /\ \A t \in Tasks :
       obs[t].invoked = IF task[t].pc = "idle" THEN 0 ELSE 1
  /\ BatchReturned => \A t \in Records : obs[t].invoked = 1
  /\ metrics.totalRequests = Cardinality({ t \in Tasks : obs[t].invoked > 0 })

\* A returned batch in which one resolution returned null and one threw.
C10_Witness ==
  /\ batchPc = "returned"
  /\ \E a, b \in Records :
       /\ task[a].ret = Returns(NULL)
       /\ task[b].ret.kind = "throw"
       /\ obs[a].invoked = 1
       /\ obs[b].invoked = 1

\* C11: a record the first run reported found with URL u, or not_found, is
\* reported with the same status and URL by a second run over the same
\* input that starts from the cache the first run left, and its second
\* resolution makes no network call (no cache call raises and the
\* progress callback returns in the second run).
C11_WarmRerunIdempotent ==
  run = 2 =>
    \A t \in Records :
      ( /\ prev[t].status \in {"found", "not_found"}
        /\ task[t].pc = "done"
        /\ OnlyNetwork(t) ) =>
          /\ task[t].result.status = prev[t].status
          /\ task[t].result.favicon_url = prev[t].favicon_url
          /\ obs[t].netCalls = 0

\* The result processBatch builds for the record from what findFavicon
\* did, with no reference to the progress callback.
OutcomeResult(t) ==
  IF task[t].ret.kind = "value"
  THEN ResultOf(domains[t], task[t].ret.url)
  ELSE ErrorResult(domains[t], task[t].ret.err)

\* C12: the progress callback does not affect resolution: whether it is
\* supplied or omitted, and whatever it does, every finished record's
\* result is the one findFavicon's outcome determines, every returned
\* result list holds exactly those results, and the cache holds what the
\* resolutions wrote.
C12_SinkIndependent ==
  /\ \A t \in Records :
        task[t].pc \in {"done", "rejected"} =>
          /\ task[t].pc = "done"
          /\ task[t].result = OutcomeResult(t)
  /\ BatchReturned =>
        results = [t \in Records |-> OutcomeResult(t)]

\* The resolutions of /api/test-domain requests that are in flight.
TestsInFlight == { t \in Tests : task[t].pc \notin {"idle", "done", "rejected"} }

\* C13 as the claim has it: the ceiling is global to the process, the
\* resolutions of the batch run and of /api/test-domain requests together
\* never exceed CONCURRENT_REQUESTS.
C13_GlobalCeiling ==
  Cardinality(InFlight \cup TestsInFlight) <= CONCURRENT_REQUESTS

\* C13, amended: the ceiling binds one processBatch invocation: the
\* resolutions that invocation has in flight never exceed
\* CONCURRENT_REQUESTS, whatever is in flight beside it.
C13_PerInvocationCeiling ==
  /\ Cardinality(InFlight) <= CONCURRENT_REQUESTS
  /\ InFlight \subseteq Window(i)

\* A full window is in flight while a /api/test-domain resolution is too.
C13_Witness ==
  /\ Cardinality(InFlight) = CONCURRENT_REQUESTS
  /\ TestsInFlight # {}

\* What network discovery decided: the candidate of the resolution's most
\* recent network call, or null when that call produced none.
Discovered(t) ==
  LET c == obs[t].calls[Len(obs[t].calls)]
  IN IF c.cand # "" THEN c.cand ELSE NULL

\* C14: with the cache unreachable every lookup is answered absent, no
\* cache call raises, the writes leave no entry, every resolution runs
\* network discovery and does not throw, and no record gets status error
\* (the progress callback returning); the URL or null it returns is the
\* one discovery decided, which is also what a resolution returns when the
\* cache is reachable and empty.
C14_UnreachableCacheAsEmpty ==
  \A t \in Records :
    /\ ~env.cacheUp =>
         /\ obs[t].got \in {"none", ABSENT}
         /\ obs[t].cacheFaults = 0
         /\ task[t].ret.kind # "throw"
         /\ cache[Domain(t)] = ABSENT
         /\ (task[t].pc = "done" /\ obs[t].cbThrows = 0) =>
              task[t].result.status \in {"found", "not_found"}
    /\ (obs[t].cacheFaults = 0 /\ Settled(t)) =>
         /\ obs[t].netCalls >= 1
         /\ task[t].ret = Returns(Discovered(t))

\* With the cache unreachable a record is found by discovery, its write
\* having left no entry.
C14_Witness ==
  \E t \in Records :
    /\ ~env.cacheUp
    /\ task[t].pc = "done"
    /\ task[t].result.status = "found"
    /\ obs[t].writes = << task[t].result.favicon_url >>
    /\ cache[Domain(t)] = ABSENT

\* The lines of the file that hold a rank and a non-empty domain.
DataLines == { k \in 1..Len(file) : ValidRow(file[k]) }

\* C15: the input CSV has no header row: every line that holds a domain,
\* the first line of the file included, is resolved and gives exactly one
\* data row of the output CSV.
C15_NoHeaderRow ==
  batchPc = "sorted" =>
    /\ Len(OutputRows(sorted)) = Cardinality(DataLines)
    /\ \A k \in DataLines :
         \E j \in 1..Len(sorted) :
           /\ OutputRows(sorted)[j].domain = Trim(file[k][2])
           /\ OutputRows(sorted)[j].rank = Rank(file[k][1])

\* processBatch has completed: it returned its results, or the exception
\* of a progress callback left it.
BatchCompleted == BatchReturned \/ batchPc = "rejected"

\* C16: no findFavicon invocation makes more than six network calls (HEAD,
\* GET and homepage fetch on each of the two schemes), every invocation
\* that was started settles, and every processBatch invocation completes;
\* it completes by returning unless a progress callback has thrown.
C16_Terminates ==
  /\ [](\A t \in Records : obs[t].netCalls <= 3 * Len(protocols))
  /\ [](batchPc = "rejected" => \E t \in Records : obs[t].cbThrows > 0)
  /\ <>[](\A t \in Records : task[t].pc # "idle" => Settled(t))
  /\ <>BatchCompleted

\* A batch has returned in which one resolution made all six network
\* calls.
C16_Witness ==
  /\ BatchReturned
  /\ \E t \in Records : obs[t].netCalls = 3 * Len(protocols)

\* The window a record falls in when the input is cut into consecutive
\* slices of CONCURRENT_REQUESTS records (0 for the first).
WindowOf(t) == (t - 1) \div CONCURRENT_REQUESTS

\* C17: the windows are the consecutive slices of the input; a resolution
\* of a later window has started only if every record of every earlier
\* window is finished, and every progress event of an earlier window
\* precedes every progress event of a later one.
C17_WindowBarrier ==
  /\ batchPc = "await" =>
        Window(i) = { t \in Records : WindowOf(t) = WindowOf(i) }
  /\ \A s, t \in Records :
        (WindowOf(s) < WindowOf(t) /\ task[t].pc # "idle") => task[s].pc = "done"
  /\ \A m, n \in 1..Len(events) :
        m < n => WindowOf(events[m].record) <= WindowOf(events[n].record)

\* A record of the second window is finished and every record has had
\* its progress event.
C17_Witness ==
  /\ hasCb
  /\ \E t \in Records : WindowOf(t) = 1 /\ task[t].pc = "done"
  /\ \A t \in Records : \E n \in 1..Len(events) : events[n].record = t

\* The most recent network call of the record's resolution, and the one
\* before it.
LastCall(t) == obs[t].calls[Len(obs[t].calls)]
PrevCall(t) == obs[t].calls[Len(obs[t].calls) - 1]

\* C18 (no cache call raising): network calls are made only after a cache
\* miss; the first is the HEAD probe on https; a GET of /favicon.ico
\* follows the HEAD of its scheme; the homepage of a scheme is fetched
\* right after the probe on that scheme (HEAD, or HEAD and GET) and only
\* if that produced no candidate; a request on http follows the homepage
\* fetch on https, which produced no candidate either.
C18_DiscoveryOrder ==
  \A t \in Records :
    (obs[t].cacheFaults = 0 /\ obs[t].netCalls > 0) =>
      /\ obs[t].got = ABSENT
      /\ obs[t].netCalls = 1 =>
           LastCall(t).proto = "https" /\ LastCall(t).step = "head"
      /\ LastCall(t).proto = "http" => obs[t].netCalls >= 3
      /\ obs[t].netCalls > 1 =>
           /\ PrevCall(t).cand = ""
           /\ LastCall(t).step = "get" =>
                /\ PrevCall(t).step = "head"
                /\ PrevCall(t).proto = LastCall(t).proto
           /\ LastCall(t).step = "html" =>
                /\ PrevCall(t).step \in {"head", "get"}
                /\ PrevCall(t).proto = LastCall(t).proto
           /\ LastCall(t).step = "head" =>
                /\ LastCall(t).proto = "http"
                /\ PrevCall(t).proto = "https"
                /\ PrevCall(t).step = "html"

\* A record is found by the homepage fetch on http, the sixth call of its
\* resolution, after the GET on http.
C18_Witness ==
  \E t \in Records :
    /\ obs[t].cacheFaults = 0
    /\ obs[t].netCalls = 6
    /\ LastCall(t).proto = "http" /\ LastCall(t).step = "html"
    /\ PrevCall(t).proto = "http" /\ PrevCall(t).step = "get"
    /\ task[t].pc = "done"
    /\ task[t].result.favicon_url = LastCall(t).cand
    /\ task[t].result.status = "found"

\* The call is a HEAD probe answered 2xx, with or without content-length.
Head2xx(c) == c.step = "head" /\ c.o \in {"2xx", "2xxNoLength"}

\* C19 (no cache call raising): a HEAD probe answered 2xx is the last
\* network call of its resolution; its candidate is the URL the client
\* landed on, or the requested URL when the client exposes none; the
\* resolution goes on to cache that URL for the domain and return it, and
\* the record's status is found (the progress callback returning).
C19_Head2xxFound ==
  \A t \in Records :
    (obs[t].cacheFaults = 0 /\ obs[t].netCalls > 0) =>
      /\ obs[t].netCalls > 1 => ~Head2xx(PrevCall(t))
      /\ Head2xx(LastCall(t)) =>
           /\ LastCall(t).cand =
                IF LastCall(t).responseUrl # "" THEN LastCall(t).responseUrl
                ELSE LastCall(t).proto \o "://" \o Domain(t) \o "/favicon.ico"
           /\ task[t].pc \in {"setHead", "settled", "done", "rejected"}
           /\ task[t].pc = "setHead" => task[t].cand = LastCall(t).cand
           /\ Settled(t) =>
                /\ task[t].ret = Returns(LastCall(t).cand)
                /\ obs[t].writes = << LastCall(t).cand >>
                /\ cache[Domain(t)] = LastCall(t).cand
           /\ (task[t].pc = "done" /\ obs[t].cbThrows = 0) =>
                /\ task[t].result.status = "found"
                /\ task[t].result.favicon_url = LastCall(t).cand

\* A record is found by a HEAD answered 2xx without content-length after
\* a redirect, the only network call of its resolution.
C19_Witness ==
  \E t \in Records :
    /\ obs[t].cacheFaults = 0
    /\ obs[t].netCalls = 1
    /\ LastCall(t).step = "head" /\ LastCall(t).o = "2xxNoLength"
    /\ LastCall(t).responseUrl # ""
    /\ task[t].pc = "done"
    /\ task[t].result.status = "found"
    /\ task[t].result.favicon_url = LastCall(t).responseUrl
    /\ cache[Domain(t)] = LastCall(t).responseUrl

\* The call is a HEAD probe answered 4xx or 5xx ("4xx") or 405.
HeadRefused(c) == c.step = "head" /\ c.o \in {"4xx", "405"}

\* C20 (no cache call raising): after a HEAD probe answered 4xx, 5xx or
\* 405 the next network call of the resolution is the GET of /favicon.ico
\* on the same scheme, and a GET that brought a non-empty payload is the
\* resolution's last call: its URL is cached for the domain and returned.
C20_HeadRefusedThenGet ==
  \A t \in Records :
    (obs[t].cacheFaults = 0 /\ obs[t].netCalls > 0) =>
      /\ HeadRefused(LastCall(t)) => task[t].pc = "getico"
      /\ (obs[t].netCalls > 1 /\ HeadRefused(PrevCall(t))) =>
           /\ LastCall(t).step = "get"
           /\ LastCall(t).proto = PrevCall(t).proto
      /\ (LastCall(t).step = "get" /\ LastCall(t).o = "data") =>
           /\ task[t].pc \in {"setGet", "settled", "done", "rejected"}
           /\ Settled(t) =>
                /\ task[t].ret = Returns(LastCall(t).cand)
                /\ cache[Domain(t)] = LastCall(t).cand

\* The call is a HEAD probe that failed with status 405 or with ENOTFOUND.
HeadAbandoned(c) == c.step = "head" /\ c.o \in {"405", "ENOTFOUND"}

\* The call is a HEAD probe that failed in another way.
HeadOtherError(c) == c.step = "head" /\ c.o \in {"4xx", "timeout"}

\* C21 as the claim has it (no cache call raising): after a HEAD probe
\* that failed with 405 or ENOTFOUND the resolution makes no further call
\* on that scheme; after every other HEAD error the next call is the GET.
C21_SchemeAbandoned ==
  \A t \in Records :
    (obs[t].cacheFaults = 0 /\ obs[t].netCalls > 1) =>
      /\ HeadAbandoned(PrevCall(t)) => LastCall(t).proto # PrevCall(t).proto
      /\ HeadOtherError(PrevCall(t)) =>
           LastCall(t).step = "get" /\ LastCall(t).proto = PrevCall(t).proto

\* C21, amended (no cache call raising): after a HEAD probe that failed
\* with 405 or ENOTFOUND the GET is skipped and the next call is the
\* homepage fetch on the same scheme; after every other HEAD error the
\* next call is the GET on the same scheme.
C21_GetSkippedHomepageFetched ==
  \A t \in Records :
    (obs[t].cacheFaults = 0 /\ obs[t].netCalls > 0) =>
      /\ HeadAbandoned(LastCall(t)) => task[t].pc = "html"
      /\ HeadOtherError(LastCall(t)) => task[t].pc = "getico"
      /\ obs[t].netCalls > 1 =>
           /\ HeadAbandoned(PrevCall(t)) =>
                LastCall(t).step = "html" /\ LastCall(t).proto = PrevCall(t).proto
           /\ HeadOtherError(PrevCall(t)) =>
                LastCall(t).step = "get" /\ LastCall(t).proto = PrevCall(t).proto

\* The HEAD on https failed with ENOTFOUND and the https homepage was
\* fetched next; the HEAD on http timed out and the GET on http followed.
C21_Witness ==
  \E t \in Records :
    /\ obs[t].cacheFaults = 0
    /\ obs[t].netCalls = 4
    /\ PrevCall(t).proto = "http" /\ PrevCall(t).o = "timeout"
    /\ LastCall(t).proto = "http" /\ LastCall(t).step = "get"
    /\ obs[t].netResponses = 0

\* The last network call of the record's resolution fetched a homepage,
\* no cache call having raised.
PageFetched(t) ==
  /\ obs[t].cacheFaults = 0
  /\ obs[t].netCalls > 0
  /\ LastCall(t).step = "html" /\ LastCall(t).o = "page"

\* The URL the fetched homepage is the base of relative references for.
BaseUrl(t) ==
  FinalUrl(LastCall(t).responseUrl, LastCall(t).proto \o "://" \o Domain(t))

\* The selectors, by priority.
Selectors == 1..Len(iconSelectors)

\* The selector matches an element of the document.
MatchesAny(doc, k) == \E n \in 1..Len(doc) : Matches(iconSelectors[k], doc[n])

\* The candidate the k-th selector gives on the record's homepage: the
\* normalised href of the first element it matches.
SelectorCandidate(t, k) ==
  NormaliseUrl(Trim(First(obs[t].page, iconSelectors[k]).href),
               LastCall(t).proto, BaseUrl(t))

\* The k-th selector gives a candidate: the href of its first element is
\* usable and normalises.
GivesCandidate(t, k) ==
  /\ Usable(First(obs[t].page, iconSelectors[k]).href)
  /\ SelectorCandidate(t, k).ok

\* C22 as stated: the first selector in priority order that matches any
\* element of the homepage determines the candidate, the attribute of its
\* first element; no lower-priority selector is used.
C22_FirstMatchingSelectorWins ==
  \A t \in Records :
    PageFetched(t) =>
      \A k \in Selectors :
        (MatchesAny(obs[t].page, k)
           /\ \A j \in 1..(k - 1) : ~MatchesAny(obs[t].page, j)) =>
          LastCall(t).cand =
            IF GivesCandidate(t, k) THEN SelectorCandidate(t, k).url ELSE ""

\* C22 amended: the candidate is the normalised href of the first element
\* of the first selector in priority order whose first element has a
\* usable href that normalises; a selector of lower priority is used when
\* the candidates of all before it were rejected; no element after the
\* first of a selector is used; there is no candidate when no selector
\* gives one.
C22_FirstUsableSelectorWins ==
  \A t \in Records :
    PageFetched(t) =>
      /\ \A k \in Selectors :
           (GivesCandidate(t, k) /\ \A j \in 1..(k - 1) : ~GivesCandidate(t, j)) =>
             LastCall(t).cand = SelectorCandidate(t, k).url
      /\ (\A k \in Selectors : ~GivesCandidate(t, k)) => LastCall(t).cand = ""

\* A homepage whose first icon link has a blank href and whose second
\* element, of a lower-priority selector, gives the candidate returned.
C22_Witness ==
  \E t \in Records :
    /\ PageFetched(t)
    /\ obs[t].page = << Link("icon", " "), Link("shortcut icon", "//cdn.test/i.png") >>
    /\ task[t].ret = Returns("https://cdn.test/i.png")

\* The social preview selector, last in priority.
OgImage == Len(iconSelectors)

\* C23: when no link selector matches an element of the fetched homepage
\* and its first og:image meta element has a non-empty content value, that
\* value, normalised, is the candidate, and findFavicon returns it.
C23_OgImageContent ==
  \A t \in Records :
    (/\ PageFetched(t)
     /\ \A k \in 1..(OgImage - 1) : ~MatchesAny(obs[t].page, k)
     /\ Truthy(First(obs[t].page, iconSelectors[OgImage]).content)) =>
      LET content == First(obs[t].page, iconSelectors[OgImage]).content
          url == NormaliseUrl(Trim(content), LastCall(t).proto, BaseUrl(t)).url
      IN /\ LastCall(t).cand = url
         /\ Settled(t) => task[t].ret = Returns(url)

\* C24: whatever the homepage holds, blanks around attribute values
\* included, findFavicon neither returns nor caches a URL that starts
\* with "data:".
C24_NeverDataUri ==
  \A t \in Records :
    /\ task[t].ret.kind = "value" => ~StartsWith(task[t].ret.url, "data:")
    /\ \A n \in 1..Len(obs[t].writes) : ~StartsWith(obs[t].writes[n], "data:")
    /\ ~StartsWith(cache[Domain(t)], "data:")

\* The selector that gives the record's candidate: the first in priority
\* whose first element has a usable href that normalises.
IsChosen(t, k) ==
  GivesCandidate(t, k) /\ \A j \in 1..(k - 1) : ~GivesCandidate(t, j)

\* The trimmed href the k-th selector reads on the record's homepage.
Href(t, k) == Trim(First(obs[t].page, iconSelectors[k]).href)

\* The origin of the URL the homepage fetch landed on: the requested one
\* without a redirect, else the origin of the redirect target.
LandedOrigin(t) ==
  CASE LastCall(t).responseUrl = "" -> LastCall(t).proto \o "://" \o Domain(t)
    [] LastCall(t).responseUrl = "https://www.a.io/home/index.html" ->
         "https://www.a.io"

\* C25: a candidate that starts with "//" becomes the scheme being tried,
\* ":" and the candidate; a candidate that starts with a single "/"
\* becomes the origin of the URL the homepage fetch landed on, followed by
\* the candidate.
C25_RelativeCandidates ==
  \A t \in Records :
    PageFetched(t) =>
      \A k \in Selectors :
        IsChosen(t, k) =>
          /\ StartsWith(Href(t, k), "//") =>
               LastCall(t).cand = LastCall(t).proto \o ":" \o Href(t, k)
          /\ (StartsWith(Href(t, k), "/") /\ ~StartsWith(Href(t, k), "//")) =>
               LastCall(t).cand = LandedOrigin(t) \o Href(t, k)

\* The http homepage redirected to https://www.a.io and names its icon
\* "/icon.png": the record is found on the origin landed on.
C25_Witness ==
  \E t \in Records :
    /\ PageFetched(t)
    /\ LastCall(t).proto = "http"
    /\ LastCall(t).responseUrl = "https://www.a.io/home/index.html"
    /\ obs[t].page = << Link("icon", "/icon.png") >>
    /\ task[t].pc = "done"
    /\ task[t].result.favicon_url = "https://www.a.io/icon.png"
    /\ cache[Domain(t)] = "https://www.a.io/icon.png"

\* The directory of the URL the homepage fetch landed on, which relative
\* references are resolved against.
LandedDirectory(t) ==
  CASE LastCall(t).responseUrl = "" ->
         LastCall(t).proto \o "://" \o Domain(t) \o "/"
    [] LastCall(t).responseUrl = "https://www.a.io/home/index.html" ->
         "https://www.a.io/home/"

\* C26: of the candidates that start with no "/", one that starts with a
\* scheme is the URL as it stands, and every other one, a file name that
\* begins with the letters "http" included, is resolved as a relative
\* reference against the URL the homepage fetch landed on.
C26_SchemeOrRelative ==
  \A t \in Records :
    PageFetched(t) =>
      \A k \in Selectors :
        (IsChosen(t, k) /\ ~StartsWith(Href(t, k), "/")) =>
          LastCall(t).cand =
            IF HasScheme(Href(t, k)) THEN Href(t, k)
            ELSE LandedDirectory(t) \o Href(t, k)

\* The normalisation of the href the k-th selector reads raises.
NormalisationThrows(t, k) ==
  /\ Usable(First(obs[t].page, iconSelectors[k]).href)
  /\ Malformed(Href(t, k))

\* C27 (no cache call raising): a candidate whose normalisation raises is
\* a non-match: it is not cached, the candidate is that of the next
\* selector that gives one, if any, findFavicon does not throw and, the
\* progress callback returning, the record's status is found or not_found.
C27_ThrowingCandidateSkipped ==
  \A t \in Records :
    PageFetched(t) =>
      \A k \in Selectors :
        NormalisationThrows(t, k) =>
          /\ \A n \in 1..Len(obs[t].writes) :
               obs[t].writes[n] \notin
                 {Href(t, k), First(obs[t].page, iconSelectors[k]).href}
          /\ \A j \in Selectors :
               (/\ j > k
                /\ Usable(First(obs[t].page, iconSelectors[j]).href)
                /\ ~Malformed(Href(t, j))
                /\ \A n \in 1..(j - 1) :
                     Usable(First(obs[t].page, iconSelectors[n]).href) =>
                       Malformed(Href(t, n))) =>
                 /\ LastCall(t).cand # ""
                 /\ Settled(t) => task[t].ret = Returns(LastCall(t).cand)
          /\ task[t].ret.kind # "throw"
          /\ (task[t].pc = "done" /\ obs[t].cbThrows = 0) =>
               task[t].result.status \in {"found", "not_found"}

\* The first icon link of the homepage has an href with a blank in its
\* host, the second selector gives "//cdn.test/i.png": the record is
\* found with the second.
C27_Witness ==
  \E t \in Records :
    /\ PageFetched(t)
    /\ obs[t].page =
         << Link("icon", "ftp://a b/i.png"), Link("shortcut icon", "//cdn.test/i.png") >>
    /\ obs[t].writes = << LastCall(t).proto \o "://cdn.test/i.png" >>
    /\ task[t].pc = "done"
    /\ task[t].result.status = "found"

\* cacheService.get answered the record's resolution with no entry.
Missed(t) == obs[t].got \notin {"none", "fault", NOT_FOUND} /\ ~GotUrl(t)

\* The call produced no candidate.
NoCandidate(c) ==
  \/ c.step = "head" /\ ~Is2xx(c.o)
  \/ c.step = "get" /\ AfterGet(c.o) # "setGet"
  \/ c.step = "html" /\ c.cand = ""

\* C28: after a cache miss, a resolution that returns a URL has made one
\* cache write, set(domain, u) with u the URL returned; one that returns
\* null has made one cache write, setNotFound(domain); the negative
\* sentinel is written only after the homepage step on http, the last
\* scheme, gave no candidate, the probe on http and the steps on https
\* before it having given none; no resolution makes both kinds of write.
C28_WriteDiscipline ==
  \A t \in Records :
    /\ Len(obs[t].writes) <= 1
    /\ (Settled(t) /\ Missed(t) /\ task[t].ret.kind = "value") =>
         obs[t].writes =
           << IF task[t].ret.url = NULL THEN NOT_FOUND ELSE task[t].ret.url >>
    /\ (NOT_FOUND \in { obs[t].writes[n] : n \in 1..Len(obs[t].writes) }) =>
         /\ task[t].ret = Returns(NULL)
         /\ obs[t].netCalls >= 2 * Len(protocols)
         /\ LastCall(t).proto = protocols[Len(protocols)]
         /\ LastCall(t).step = "html"
         /\ PrevCall(t).proto = protocols[Len(protocols)]
         /\ PrevCall(t).step \in {"head", "get"}
         /\ obs[t].cacheFaults = 0 => NoCandidate(LastCall(t)) /\ NoCandidate(PrevCall(t))

\* After HEAD, GET and homepage fetch on both schemes, six network calls,
\* a record ends not_found with the sentinel as its only cache write.
C28_Witness ==
  \E t \in Records :
    /\ Missed(t)
    /\ obs[t].netCalls = 3 * Len(protocols)
    /\ obs[t].writes = << NOT_FOUND >>
    /\ task[t].pc = "done"
    /\ task[t].result.status = "not_found"

\* The resolution reads the cache once, before its network calls and its
\* cache writes.
ReadOnceFirst(t) ==
  /\ obs[t].gets <= 1
  /\ (obs[t].netCalls > 0 \/ obs[t].writes # << >>) => obs[t].gets = 1
  /\ Settled(t) => obs[t].gets = 1

\* The record's resolution completes a cache write in the step.
Writes(t) == obs'[t].writes # obs[t].writes

\* A step changes the entry of a domain only by the write of a resolution
\* of that domain, and a write leaves its value in the entry of its
\* domain: the entry is at any time the value written last.
LastWriterWins ==
  /\ \A t \in Records :
       Writes(t) =>
         /\ obs'[t].writes = Append(obs[t].writes, cache'[Domain(t)])
         /\ \A d \in Domains \ {Domain(t)} : cache'[d] = cache[d]
  /\ \A d \in Domains :
       cache'[d] # cache[d] => \E t \in Records : Domain(t) = d /\ Writes(t)

\* C29: a resolution reads the cache once, before any network call and
\* any cache write, and not again; with resolutions of one domain in
\* flight together, the entry of a domain is the value of the write that
\* came last, and no write changes the entry of another domain.
C29_ReadOnceLastWriterWins ==
  /\ [](\A t \in Records : ReadOnceFirst(t))
  /\ [][LastWriterWins]_vars

\* Two records of one domain were resolved in the same window and wrote
\* different values; the entry is the value of one, and not of the other.
C29_Witness ==
  \E t, u \in Records :
    /\ t # u
    /\ Domain(t) = Domain(u)
    /\ WindowOf(t) = WindowOf(u)
    /\ Finished(t) /\ Finished(u)
    /\ obs[t].gets = 1 /\ obs[u].gets = 1
    /\ Len(obs[t].writes) = 1 /\ Len(obs[u].writes) = 1
    /\ obs[t].writes # obs[u].writes
    /\ cache[Domain(t)] = obs[u].writes[1]
    /\ obs[u].got = ABSENT

\* The places of the record's progress events among those emitted.
EventsOf(t) == { n \in 1..Len(events) : events[n].record = t }

\* findFavicon settled for record a before it did for record b.
CompletedBefore(a, b) ==
  /\ obs[a].settledAt > 0
  /\ obs[b].settledAt > 0
  /\ obs[a].settledAt < obs[b].settledAt

\* C30: progress events follow the order in which the resolutions
\* completed: an event is emitted for a record whose resolution has
\* completed; when a progress callback is supplied, every record whose
\* arrow function has ended, hence every record of a batch that has
\* returned, has its event; the event carries the record's own result
\* (the callback returning); and when a's resolution completed before b's,
\* b has no event before a has one and a's events precede b's.
C30_CompletionOrder ==
  /\ \A n \in 1..Len(events) :
       /\ events[n].record \in Records
       /\ Settled(events[n].record)
       /\ \A m \in (n + 1)..Len(events) :
            events[m].record # events[n].record =>
              CompletedBefore(events[n].record, events[m].record)
  /\ \A a, b \in Records :
       (CompletedBefore(a, b) /\ EventsOf(b) # {}) => EventsOf(a) # {}
  /\ hasCb =>
       \A t \in Records :
         /\ Finished(t) => EventsOf(t) # {}
         /\ (task[t].pc = "done" /\ obs[t].cbThrows = 0) =>
              /\ Cardinality(EventsOf(t)) = 1
              /\ \A n \in EventsOf(t) : events[n].status = task[t].result.status
  /\ BatchReturned => \A t \in Records : task[t].pc = "done"

\* The second record of the input completed before the first, and the
\* events were emitted in that order; the batch has returned.
C30_Witness ==
  /\ BatchReturned
  /\ Len(events) = Len(domains)
  /\ Len(events) >= 2
  /\ events[1].record = 2
  /\ events[2].record = 1
  /\ CompletedBefore(2, 1)
  /\ events[1].status # events[2].status

\* The percentage of the n-th progress event, in tenths.
PercentageOf(n) == Percentage(events[n].processed, events[n].total)

\* processed / total * 100 rounded to the nearest tenth (a tie upwards),
\* in tenths.
Rounded(p, n) == (2000 * p + n) \div (2 * n)

\* C31: the percentage of each progress event of a batch run is
\* processed / total * 100 rounded to one decimal; the percentages do not
\* decrease in emission order, lie in (0.0, 100.0], are 100.0 only when
\* processed = total, and the last event of a run that has returned is at
\* 100.0.
C31_Percentage ==
  /\ \A n \in 1..Len(events) :
       /\ PercentageOf(n) = Rounded(events[n].processed, events[n].total)
       /\ PercentageOf(n) > 0
       /\ PercentageOf(n) <= 1000
       /\ PercentageOf(n) = 1000 <=> events[n].processed = events[n].total
       /\ \A m \in 1..n : PercentageOf(m) <= PercentageOf(n)
  /\ (BatchReturned /\ events # << >>) => PercentageOf(Len(events)) = 1000

\* The status the outcome of the record's own resolution calls for.
OwnStatus(t) ==
  IF task[t].ret.kind = "throw" THEN "error"
  ELSE IF Truthy(task[t].ret.url) THEN "found" ELSE "not_found"

\* C32: the status of a record is that of its own resolution: found when
\* findFavicon returned a URL, not_found when it returned null, error
\* when it threw; the record is counted once; metrics.errors counts the
\* records whose resolution threw, whatever the progress callback does.
C32_StatusOfOwnResolution ==
  /\ \A t \in Records :
       task[t].pc = "done" =>
         /\ task[t].result.status = OwnStatus(t)
         /\ obs[t].counted = 1
  /\ metrics.errors =
       Cardinality({ t \in Records : Finished(t) /\ task[t].ret.kind = "throw" })

\* The result has a status, and it is found exactly with a favicon URL.
Consistent(r) ==
  /\ r.status \in {"found", "not_found", "error"}
  /\ r.status = "found" <=> r.favicon_url # ""
  /\ r.favicon_url # NULL

\* C33: in every result of processBatch and of testSingleDomain the
\* status is found exactly when favicon_url is a non-empty string, so that
\* not_found and error come with the empty string; testSingleDomain does
\* not report the status error.
C33_ResultConsistency ==
  /\ \A t \in Slots : task[t].pc = "done" => Consistent(task[t].result)
  /\ \A n \in 1..Len(results) : Consistent(results[n])
  /\ \A t \in Tests : task[t].result.status # "error"

\* testSingleDomain has reported not_found with an empty URL and the
\* batch has returned results of which one is found.
C33_Witness ==
  /\ BatchReturned
  /\ \E n \in 1..Len(results) :
       results[n].status = "found" /\ results[n].favicon_url # ""
  /\ \E t \in Tests :
       /\ task[t].pc = "done"
       /\ task[t].ret = Returns(NULL)
       /\ task[t].result.status = "not_found"
       /\ task[t].result.favicon_url = ""

\* The entry of the domain is a favicon URL.
Positive(d) == Truthy(cache[d]) /\ cache[d] # NOT_FOUND /\ cache[d] # ABSENT

\* C34: once the entry of a domain is a URL, no step of any resolution,
\* one of a duplicate record in the same window included, replaces it
\* with the negative sentinel.
C34_NeverDowngraded ==
  [][\A d \in Domains : Positive(d) => cache'[d] # NOT_FOUND]_vars

\* The counters of the metrics accumulator (lines 51-59).
Counters == DOMAIN Metrics0

\* The invocations of findFavicon that threw.
Threw == { t \in Slots : task[t].ret.kind = "throw" }

\* No call of cacheService.get has raised.
GetNeverThrew == \A t \in Slots : obs[t].got # "fault"

\* No invocation of findFavicon is between its entry and its settling.
Quiescent ==
  \A t \in Slots : task[t].pc \in {"idle", "settled", "done", "rejected"}

\* The relations between the counters in a state.
MetricsBalance ==
  /\ metrics.cacheHits + metrics.cacheMisses <= metrics.totalRequests
  /\ metrics.found + metrics.notFound <= metrics.totalRequests
  /\ (Quiescent /\ GetNeverThrew) =>
       /\ metrics.totalRequests = metrics.cacheHits + metrics.cacheMisses
       /\ metrics.totalRequests =
            metrics.found + metrics.notFound + Cardinality(Threw)

\* C35: no counter of metrics, totalDuration included, decreases; cacheHits + cacheMisses and
\* found + notFound never exceed totalRequests; with no resolution in
\* flight and no cacheService.get having raised, totalRequests equals
\* cacheHits + cacheMisses and equals found + notFound plus the number of
\* invocations of findFavicon that threw (all of it for a cacheService.get
\* that does not raise).
C35_MetricsAccounting ==
  /\ []MetricsBalance
  /\ [][GetNeverThrew' => \A c \in Counters : metrics'[c] >= metrics[c]]_vars

\* The call is a HEAD probe that neither succeeded with 2xx nor failed
\* with 405 or ENOTFOUND.
HeadInconclusive(c) ==
  c.step = "head" /\ ~Is2xx(c.o) /\ ~HeadAbandoned(c)

\* C36 (no cache call raising): after a HEAD probe that neither succeeded
\* with 2xx nor failed with 405 or ENOTFOUND, a 3xx answer included, the
\* GET of the same URL comes next, before the homepage of the scheme.
C36_GetBeforeHomepage ==
  \A t \in Records :
    (obs[t].cacheFaults = 0 /\ obs[t].netCalls > 0) =>
      /\ HeadInconclusive(LastCall(t)) => task[t].pc = "getico"
      /\ (obs[t].netCalls > 1 /\ HeadInconclusive(PrevCall(t))) =>
           /\ LastCall(t).step = "get"
           /\ LastCall(t).proto = PrevCall(t).proto

\* The URL a HEAD probe answered 2xx makes the candidate.
ProbedUrl(t, c) == FinalUrl(c.responseUrl, FaviconIco(c.proto, Domain(t)))

\* C37: once cacheService.set has been called after a HEAD probe answered
\* 2xx, whether it returns or raises, findFavicon returns the probed URL
\* and makes no further network call, and the record's status is found
\* (the progress callback returning).
C37_SetFailureKeepsFound ==
  \A t \in Records :
    /\ (obs[t].netCalls > 0 /\ Head2xx(LastCall(t)) /\ task[t].pc # "setHead") =>
         /\ task[t].ret = Returns(ProbedUrl(t, LastCall(t)))
         /\ (task[t].pc = "done" /\ obs[t].cbThrows = 0) =>
              task[t].result.status = "found"
    /\ obs[t].netCalls > 1 => ~Head2xx(PrevCall(t))

\* The rank of a row: the number in its first cell, 0 when that is none.
RankOrZero(cell) ==
  LET minus == Len(cell) > 0 /\ SubSeq(cell, 1, 1) = "-"
      digits == IF minus THEN SubSeq(cell, 2, Len(cell)) ELSE cell
  IN IF digits # "" /\ \A k \in 1..Len(digits) : IsDigit(SubSeq(digits, k, k))
     THEN IF minus THEN 0 - DecimalValue(digits) ELSE DecimalValue(digits)
     ELSE 0

\* The records of the parsed rows that have two columns and a domain, in
\* the order of the rows.
RECURSIVE Kept(_)
Kept(rows) ==
  IF rows = << >> THEN << >>
  ELSE IF Len(Head(rows)) >= 2 /\ Trim(Head(rows)[2]) # ""
  THEN << [rank |-> RankOrZero(Head(rows)[1]), domain |-> Trim(Head(rows)[2])] >>
         \o Kept(Tail(rows))
  ELSE Kept(Tail(rows))

\* C38: processCsvFile hands processBatch one DomainRecord for each parsed
\* row with at least two columns and a non-empty trimmed domain, in file
\* order, with rank 0 for a rank that is no number; no resolution is
\* started for any other row, and when processCsvFile has written its
\* output every such record was resolved once and has one output row.
C38_ResolvesValidRows ==
  /\ batchPc \in {"read", "parseError"} =>
       \A t \in Tasks : obs[t].invoked = 0
  /\ batchPc \notin {"read", "parseError"} =>
       /\ domains = Kept(ParseCsv(file))
       /\ \A t \in Tasks : obs[t].invoked = 0 \/ (t \in Records /\ obs[t].invoked = 1)
  /\ batchPc = "sorted" =>
       /\ \A t \in Records : obs[t].invoked = 1
       /\ Len(OutputRows(sorted)) = Len(domains)
       /\ \A r \in { domains[k] : k \in Records } :
            Cardinality({ k \in Records : domains[k] = r })
              = Cardinality({ j \in 1..Len(sorted) :
                                /\ OutputRows(sorted)[j].rank = r.rank
                                /\ OutputRows(sorted)[j].domain = r.domain })

\* A file whose second line has a rank that is no number and whose third
\* has no domain: one record of rank 0 was resolved and written.
C38_Witness ==
  /\ batchPc = "sorted"
  /\ Len(file) = 3
  /\ file[2] = << "x", "b.io" >>
  /\ file[3] = << "3", "" >>
  /\ domains = << [rank |-> 0, domain |-> "b.io"] >>
  /\ Len(sorted) = 1
  /\ sorted[1].rank = 0
  /\ obs[1].invoked = 1

\* At most KeepLast entries, each found with a URL, newest first: the
\* ranks of the results pushed go round, so each entry is the successor
\* of the one after it.
RecentWellFormed ==
  /\ Len(recentFavicons) <= KeepLast
  /\ \A k \in 1..Len(recentFavicons) :
       /\ recentFavicons[k].status = "found"
       /\ recentFavicons[k].favicon_url # ""
  /\ \A k \in 1..(Len(recentFavicons) - 1) :
       recentFavicons[k].rank = (recentFavicons[k + 1].rank % MaxRank) + 1

\* C39 as stated: recentFavicons holds at most 20 entries, newest first,
\* each found with a non-empty URL, and is empty after a file was selected
\* or a submission started.
C39_RecentFavicons ==
  /\ RecentWellFormed
  /\ (handled.handler = "fileChange" /\ handled.input # NULL) =>
       recentFavicons = << >>
  /\ (handled.handler = "submit" /\ handled.input # NULL) =>
       recentFavicons = << >>

\* C39 amended: recentFavicons holds at most 20 entries, newest first,
\* each found with a non-empty URL; it is empty after a file whose name
\* ends in .csv was selected and after a submission with a file selected
\* started; the selection of any other file leaves it as it was.
C39_RecentFaviconsCsvOnly ==
  /\ RecentWellFormed
  /\ (handled.handler = "fileChange" /\ handled.input # NULL
        /\ EndsWith(handled.input, ".csv")) =>
       recentFavicons = << >>
  /\ (handled.handler = "submit" /\ handled.input # NULL) =>
       recentFavicons = << >>

\* The list is full after more than KeepLast found results since a file
\* was selected: it holds the newest KeepLast of them.
C39_Witness ==
  /\ selectedFile = "domains.csv"
  /\ Len(recentFavicons) = KeepLast
  /\ recentFavicons[1].rank = ((KeepLast + 1) % MaxRank) + 1
  /\ handled.handler = "progress"

============================================================================
